---------------------------- MODULE Spec2Model ----------------------------
(***************************************************************************)
(* Honk Patrol: the traffic simulation and the game-state core.            *)
(*                                                                         *)
(* Units.  Time is counted in tenths of a second (ds), positions in tenths *)
(* of a pixel (dpx), speeds in pixels per second.  With these units        *)
(* x += speed * deltaTime is the integer  x + speed * dt, and the ramp     *)
(* acceleration * deltaTime  (100 px/s^2) is  10 * dt.  Every comparison   *)
(* of the source is kept as an integer comparison of the same quantities.  *)
(*                                                                         *)
(* null is written -1 for the numeric handles (fire, targetLane).          *)
(***************************************************************************)
EXTENDS Integers, Sequences, FiniteSets, TLC

VARIABLES
    vehicles,                   \* Game.vehicles
    droppings,                  \* Game.droppings
    foods,                      \* Game.foods
    bird,                       \* Game.bird
    score,                      \* Game.score
    wave,                       \* Game.wave
    waveTimer,                  \* Game.waveTimer
    vehiclesPerWave,            \* Game.vehiclesPerWave
    vehiclesSpawned,            \* Game.vehiclesSpawned
    vehicleSpawnTimer,          \* Game.vehicleSpawnTimer
    foodSpawnTimer,             \* Game.foodSpawnTimer
    emergencyMode,              \* Game.emergencyMode
    emergencyVehiclesRemaining, \* Game.emergencyVehiclesRemaining
    sprites,                    \* assets.visuals.vehicles: which type/direction has a sprite
    nextId,                     \* history: number of objects created so far
    crashEvents,                \* history: vehicleCrash events received by the Game
    collisions,                 \* history: vehicle/vehicle collisions that crashed a pair
    scoreLog,                   \* history: scoring handleHit calls, per dropping id
    ticks,                      \* history: Game.update calls so far
    gamePaused,                 \* main.js: gamePaused
    lastTimestamp,              \* main.js: lastTimestamp, in ds
    pendingFrames,              \* gameLoop callbacks waiting in requestAnimationFrame
    now,                        \* performance.now(), in ds
    started,                    \* the startGame listener has run and removed itself
    lastDelta,                  \* history: deltaTime of the latest Game.update call
    updatesInFrame              \* history: Game.update calls of the latest rendered frame

vars == <<vehicles, droppings, foods, bird, score, wave, waveTimer,
          vehiclesPerWave, vehiclesSpawned, vehicleSpawnTimer, foodSpawnTimer,
          emergencyMode, emergencyVehiclesRemaining, sprites, nextId,
          crashEvents, collisions, scoreLog, ticks, gamePaused,
          lastTimestamp, pendingFrames, now, started, lastDelta,
          updatesInFrame>>

-----------------------------------------------------------------------------
(* Bounds of the model *)

MaxSpawned == 2      \* vehicles created in a traffic run
MaxTicks == 69     \* Game.update calls in a game run
MaxDrops == 1      \* droppings fired in a game run
MaxFlightTicks == 25 \* Game.update calls in a flight run
MaxRapidDrops == 3   \* droppings fired in a flight run
MaxWave == 2      \* the last wave a wave run plays through

-----------------------------------------------------------------------------
(* Program constants *)

canvasWidth      == 8000
canvasHeight     == 4000
totalLanes       == 6
laneHeight       == 300
groundHeight     == 500
vehicleHeight    == 300
acceleration     == 100
crashDuration    == 30
defaultHitDuration == 30
laneChangeSpeed  == 10
honkGracePeriod  == 100
waveDuration     == 300
baseSpawnInterval == 20
maxVehicles      == 20
foodSpawnInterval == 100
maxFoods         == 3
emergencyBudget  == 10
initialVehiclesPerWave == 10

Types      == {"car", "truck", "bus", "emergency"}
Directions == {"left", "right"}

-----------------------------------------------------------------------------
(* Arithmetic helpers *)

Abs(n)     == IF n < 0 THEN -n ELSE n
Sign(n)    == IF n > 0 THEN 1 ELSE IF n < 0 THEN -1 ELSE 0
Min2(a, b) == IF a < b THEN a ELSE b
Max2(a, b) == IF a > b THEN a ELSE b

\* the least element of a non-empty set of integers
MinOf(S) == CHOOSE m \in S : \A k \in S : m <= k

\* UNION of the images of a set of states under a nondeterministic step
Bind(S, F(_)) == UNION {F(s) : s \in S}

Other(direction) == IF direction = "left" THEN "right" ELSE "left"


-----------------------------------------------------------------------------
(* Vehicle: construction *)

laneStartY == canvasHeight - (totalLanes * laneHeight) - groundHeight

LaneY(lane) == laneStartY + (lane * laneHeight) + (laneHeight \div 2)

hasAssets(sp, type, direction) == sp[<<type, direction>>]

RECURSIVE selectVehicleKeepingDirection(_, _, _)
RECURSIVE selectVehicle(_, _, _)

\* (variant: the fallback keeps the direction the loop ended with)
selectVehicleKeepingDirection(sp, direction, attempts) ==
    IF attempts >= 10
    THEN {[type |-> "car", direction |-> direction, found |-> FALSE,
           attempts |-> attempts]}
    ELSE LET validTypes == {t \in Types : hasAssets(sp, t, direction)}
         IN  IF validTypes = {}
             THEN selectVehicleKeepingDirection(sp, Other(direction), attempts + 1)
             ELSE {[type |-> t, direction |-> direction, found |-> TRUE,
                    attempts |-> attempts] : t \in validTypes}

\* the selection loop of the constructor: up to 10 attempts, flipping the
\* direction whenever no type has a sprite for it; attempts counts the
\* failed ones
selectVehicle(sp, direction, attempts) ==
    IF attempts >= 10
    THEN {[type |-> "car", direction |-> "right", found |-> FALSE,
           attempts |-> attempts]}
    ELSE LET validTypes == {t \in Types : hasAssets(sp, t, direction)}
         IN  IF validTypes = {}
             THEN selectVehicle(sp, Other(direction), attempts + 1)
             ELSE {[type |-> t, direction |-> direction, found |-> TRUE,
                    attempts |-> attempts] : t \in validTypes}

setDefaultWidth(type) ==
    CASE type = "car"       -> 600
      [] type = "truck"     -> 800
      [] type = "bus"       -> 1000
      [] type = "emergency" -> 700
      [] OTHER              -> 600

\* width = 30 * aspect ratio of the sprite, kept within 40..120 px; the
\* sprite's aspect ratio is the parameter aspect100 (in hundredths)
calculateVehicleDimensions(sp, type, direction, aspect100) ==
    IF hasAssets(sp, type, direction)
    THEN Max2(400, Min2(1200, (vehicleHeight * aspect100) \div 100))
    ELSE setDefaultWidth(type)

\* new Vehicle(canvasWidth, canvasHeight) with the random draws as parameters:
\* sel (type and direction found by the loop), lane, spd (50..150), honk
\* (the 25.5% draw), honkDur (1..3 s), aspect100 (the sprite's aspect ratio)
Vehicle(id, sp, sel, lane, spd, honk, honkDur, aspect100) ==
    LET w == calculateVehicleDimensions(sp, sel.type, sel.direction, aspect100)
        s == IF sel.direction = "left" THEN -spd ELSE spd
    IN  [id            |-> id,
         type          |-> sel.type,
         direction     |-> sel.direction,
         width         |-> w,
         height        |-> vehicleHeight,
         lane          |-> lane,
         x             |-> IF sel.direction = "left"
                           THEN canvasWidth + (w \div 2) ELSE -(w \div 2),
         y             |-> LaneY(lane),
         speed         |-> s,
         originalSpeed |-> s,
         targetSpeed   |-> s,
         isSlowingDown |-> FALSE,
         hasCrashed    |-> FALSE,
         crashTimer    |-> 0,
         fire          |-> -1,
         hitByPoop     |-> FALSE,
         hitTimer      |-> 0,
         hitDuration   |-> defaultHitDuration,
         targetLane    |-> -1,
         laneChangeProgress |-> 0,
         isChangingLane |-> FALSE,
         isHonking     |-> honk,
         honkAge       |-> honkGracePeriod,
         originalY     |-> LaneY(lane),
         targetY       |-> LaneY(lane),
         honkDuration  |-> honkDur,
         honkTimer     |-> 0,
         honkCooldown  |-> 0,
         fires         |-> 0,
         events        |-> 0,
         crashes       |-> 0,
         hits          |-> 0,
         hitCalls      |-> 0,
         laterPoints   |-> <<>>,
         spawnLane     |-> lane,
         points        |-> 0,
         honkingAtHit  |-> FALSE,
         ageAtHit      |-> honkGracePeriod,
         emergencyAtChange |-> FALSE,
         crashInfo     |-> <<>>,
         returnCheck   |-> "none",
         attempt       |-> <<>>]

-----------------------------------------------------------------------------
(* Vehicle: honking *)

\* every branch that does not return early sets isHonking and lastHonkTime
playHonkSound(v) == [v EXCEPT !.isHonking = TRUE, !.honkAge = 0]

stopHonkSound(v) == [v EXCEPT !.isHonking = FALSE]

\* isHonking, or the last honk is less than honkGracePeriod old.  honkAge is
\* the age of lastHonkTime: honkGracePeriod and more when the vehicle never
\* honked (lastHonkTime = 0), -1 when spawnVehicle stamped it in ms, which
\* makes  now/1000 - lastHonkTime  negative for ever
isCurrentlyHonking(v) ==
    v.isHonking \/ v.honkAge < honkGracePeriod


\* Date.now() moves on by the frame time between two updates
elapse(v, dt) ==
    IF v.honkAge < 0 THEN v
    ELSE [v EXCEPT !.honkAge = Min2(honkGracePeriod, @ + dt)]

-----------------------------------------------------------------------------
(* Vehicle: crash.  A traffic state st carries the vehicle array (vs), the  *)
(* result of each vehicle's update (keep) and what the Game's vehicleCrash  *)
(* listener owns.                                                           *)

TrafficState(vs, em, left, ev, co) ==
    [vs |-> vs, keep |-> [i \in DOMAIN vs |-> TRUE],
     emergencyMode |-> em, emergencyVehiclesRemaining |-> left,
     crashEvents |-> ev, collisions |-> co]

\* (variant: the budget of a new crash is added to what is left)
enterEmergencyModeAdding(st) ==
    [st EXCEPT !.emergencyMode = TRUE,
               !.emergencyVehiclesRemaining = @ + emergencyBudget,
               !.crashEvents = @ + 1]

\* (variant: the listener is not told)
enterEmergencyModeUnheard(st) ==
    [st EXCEPT !.emergencyMode = TRUE,
               !.emergencyVehiclesRemaining = emergencyBudget]

\* Game.enterEmergencyMode, run by the vehicleCrash listener
enterEmergencyMode(st) ==
    [st EXCEPT !.emergencyMode = TRUE,
               !.emergencyVehiclesRemaining = emergencyBudget,
               !.crashEvents = @ + 1]

\* (variant: without the hasCrashed guard)
crashUnguarded(st, i) ==
    LET v == st.vs[i]
        w == [v EXCEPT !.hasCrashed = TRUE,
                       !.speed = 0,
                       !.targetSpeed = 0,
                       !.crashTimer = 0,
                       !.fire = 0,
                       !.fires = @ + 1,
                       !.isHonking = FALSE,
                       !.events = @ + 1,
                       !.crashes = @ + 1]
    IN  enterEmergencyMode([st EXCEPT !.vs[i] = w])

\* vehicle.crash() for the vehicle at index i
crash(st, i) ==
    LET v == st.vs[i]
    IN  IF v.hasCrashed THEN st
        ELSE LET w == [v EXCEPT !.hasCrashed = TRUE,
                                !.speed = 0,
                                !.targetSpeed = 0,
                                !.crashTimer = 0,
                                !.fire = 0,
                                !.fires = @ + 1,
                                !.isHonking = FALSE,
                                !.events = @ + 1,
                                !.crashes = @ + 1]
             IN  enterEmergencyMode([st EXCEPT !.vs[i] = w])

-----------------------------------------------------------------------------
(* Vehicle: collision avoidance *)

NoCollision == [isNull |-> TRUE, distance |-> 0, relativeSpeed |-> 0]

calculateTimeToCollision(v, o) ==
    LET approachingFromLeft ==
            v.direction = "right" /\ o.direction = "left" /\ v.x < o.x
        approachingFromRight ==
            v.direction = "left" /\ o.direction = "right" /\ v.x > o.x
        distance == Abs(v.x - o.x) - (v.width \div 2) - (o.width \div 2)
        relativeSpeed == Abs(v.speed) + Abs(o.speed)
    IN  IF ~approachingFromLeft /\ ~approachingFromRight THEN NoCollision
        ELSE IF relativeSpeed > 0 /\ distance > 0
             THEN [isNull |-> FALSE, distance |-> distance,
                   relativeSpeed |-> relativeSpeed]
             ELSE NoCollision

\* timeToCollision !== null && timeToCollision < secs, with the distance in
\* dpx and the speed in px/s
ttcBelow(ttc, secs) ==
    ~ttc.isNull /\ ttc.distance < secs * 10 * ttc.relativeSpeed

oppositeDirectionVehicles(v, i, all) ==
    {j \in DOMAIN all : j # i /\ all[j].lane = v.lane
                              /\ all[j].direction # v.direction}

sameDirectionVehicles(v, i, all) ==
    {j \in DOMAIN all : j # i /\ all[j].lane = v.lane
                              /\ all[j].direction = v.direction}

\* distance to a same-direction vehicle, positive when it is ahead
aheadDistance(v, o) ==
    IF v.direction = "right" THEN o.x - v.x ELSE v.x - o.x

\* (variant: the percentage is drawn again in every call)
slowDownRerolling(v, rnd) ==
    UNION {
        LET w == [v EXCEPT !.isSlowingDown = TRUE,
                           !.targetSpeed =
                               Sign(v.originalSpeed) *
                               ((Abs(v.originalSpeed) * pct) \div 100)]
        IN  {IF h /\ ~w.isHonking /\ ~w.hitByPoop /\ ~w.hasCrashed
                  /\ w.honkCooldown <= 0
             THEN [playHonkSound(w) EXCEPT !.honkTimer = 0]
             ELSE w : h \in rnd.honkOnSlow}
        : pct \in rnd.pcts}

\* slowDown with its random draws: pct from rnd.pcts (5..30 percent), the
\* 42.5% honk draw from rnd.honkOnSlow
slowDown(v, rnd) ==
    IF v.isSlowingDown THEN {v}
    ELSE UNION {
        LET w == [v EXCEPT !.isSlowingDown = TRUE,
                           !.targetSpeed =
                               Sign(v.originalSpeed) *
                               ((Abs(v.originalSpeed) * pct) \div 100)]
        IN  {IF h /\ ~w.isHonking /\ ~w.hitByPoop /\ ~w.hasCrashed
                  /\ w.honkCooldown <= 0
             THEN [playHonkSound(w) EXCEPT !.honkTimer = 0]
             ELSE w : h \in rnd.honkOnSlow}
        : pct \in rnd.pcts}

\* an opposing vehicle of the lane is less than 3 s from collision, or a
\* vehicle of the lane that drives the same way is ahead within 4 widths
hazardAhead(v, i, all) ==
    \/ \E j \in oppositeDirectionVehicles(v, i, all) :
          ttcBelow(calculateTimeToCollision(v, all[j]), 3)
    \/ \E j \in sameDirectionVehicles(v, i, all) :
          /\ aheadDistance(v, all[j]) > 0
          /\ aheadDistance(v, all[j]) < v.width * 4

\* (variant: the flag is cleared and the target speed stays)
checkIfCanReturnToNormalSpeedKeepingTarget(v, i, all) ==
    IF hazardAhead(v, i, all) THEN v
    ELSE [v EXCEPT !.isSlowingDown = FALSE]

checkIfCanReturnToNormalSpeed(v, i, all) ==
    LET shouldRemainSlowed ==
            \/ \E j \in oppositeDirectionVehicles(v, i, all) :
                  ttcBelow(calculateTimeToCollision(v, all[j]), 3)
            \/ \E j \in sameDirectionVehicles(v, i, all) :
                  /\ aheadDistance(v, all[j]) > 0
                  /\ aheadDistance(v, all[j]) < v.width * 4
    IN  IF shouldRemainSlowed THEN v
        ELSE [v EXCEPT !.isSlowingDown = FALSE,
                       !.targetSpeed = v.originalSpeed]

isEmergencySituation(v, i, all) ==
    \/ \E j \in oppositeDirectionVehicles(v, i, all) :
          ttcBelow(calculateTimeToCollision(v, all[j]), 1)
    \/ \E j \in sameDirectionVehicles(v, i, all) :
          /\ aheadDistance(v, all[j]) > 0
          /\ aheadDistance(v, all[j]) < v.width

\* (variant: the safety distance is one vehicle width)
isLaneClearWithinWidth(v, i, lane, all) ==
    ~ \E j \in DOMAIN all :
          j # i /\ all[j].lane = lane /\ Abs(all[j].x - v.x) < v.width

isLaneClear(v, i, lane, all) ==
    ~ \E j \in DOMAIN all :
          j # i /\ all[j].lane = lane /\ Abs(all[j].x - v.x) < v.width * 2

startLaneChange(v, targetLane) ==
    [v EXCEPT !.isChangingLane = TRUE,
              !.targetLane = targetLane,
              !.laneChangeProgress = 0,
              !.originalY = v.y,
              !.targetY = LaneY(targetLane)]

\* (variant: the emergency lanes are always offered)
adjacentLanesWithEmergency(v, includeEmergencyLanes) ==
    (IF v.lane > 1 THEN {v.lane - 1} ELSE {})
    \cup (IF v.lane = 1 THEN {0} ELSE {})
    \cup (IF v.lane < 3 THEN {v.lane + 1} ELSE {})
    \cup (IF v.lane = 3 THEN {4} ELSE {})
    \cup (IF v.lane = 4 THEN {5} ELSE {})

adjacentLanes(v, includeEmergencyLanes) ==
    (IF v.lane > 1 THEN {v.lane - 1} ELSE {})
    \cup (IF includeEmergencyLanes /\ v.lane = 1 THEN {0} ELSE {})
    \cup (IF v.lane < 3 THEN {v.lane + 1} ELSE {})
    \cup (IF v.lane = 3 THEN {4} ELSE {})
    \cup (IF includeEmergencyLanes /\ v.lane = 4 THEN {5} ELSE {})

\* the set of lanes the random pick of attemptLaneChange is made from
laneCandidates(v, i, all, isOpposingTraffic) ==
    LET availableLanes ==
            {l \in adjacentLanes(v, isEmergencySituation(v, i, all)) :
                isLaneClear(v, i, l, all)}
        upperLanes == {l \in availableLanes : l < v.lane}
        lowerLanes == {l \in availableLanes : l > v.lane}
    IN  IF ~isOpposingTraffic THEN availableLanes
        ELSE IF v.direction = "right"
             THEN (IF upperLanes # {} THEN upperLanes ELSE availableLanes)
             ELSE (IF lowerLanes # {} THEN lowerLanes ELSE availableLanes)

\* the distance in x from v to the nearest other vehicle of the lane, NoGap
\* when the lane is empty
NoGap == 100000

laneGap(v, i, lane, all) ==
    LET gaps == {Abs(all[j].x - v.x) :
                    j \in {j \in DOMAIN all : j # i /\ all[j].lane = lane}}
    IN  IF gaps = {} THEN NoGap ELSE MinOf(gaps)

\* History: emergencyAtChange is what isEmergencySituation returned to the
\* attemptLaneChange that started the vehicle's latest lane change; attempt
\* is <<>> when the vehicle's latest update did not call attemptLaneChange,
\* and else holds the gap the call found in each adjacent lane
attemptLaneChange(v, i, all, isOpposingTraffic) ==
    LET c == laneCandidates(v, i, all, isOpposingTraffic)
        lanes == adjacentLanes(v, isEmergencySituation(v, i, all))
        seen == <<[l \in lanes |-> laneGap(v, i, l, all)]>>
    IN  IF c = {} THEN {[v EXCEPT !.attempt = seen]}
        ELSE {[startLaneChange(v, l) EXCEPT
                  !.emergencyAtChange = isEmergencySituation(v, i, all),
                  !.attempt = seen] :
                 l \in c}

detectAndAvoidCollisions(st, i, rnd) ==
    LET v   == st.vs[i]
        all == st.vs
        oppHazard == {j \in oppositeDirectionVehicles(v, i, all) :
                         ttcBelow(calculateTimeToCollision(v, all[j]), 3)}
        sameHazard == {j \in sameDirectionVehicles(v, i, all) :
                         /\ aheadDistance(v, all[j]) > 0
                         /\ aheadDistance(v, all[j]) < v.width * 4}
        put(w) == [st EXCEPT !.vs[i] = w]
    IN  IF v.isChangingLane THEN {st}
        ELSE IF oppHazard # {}
        THEN LET o == all[MinOf(oppHazard)]
             IN  IF ttcBelow(calculateTimeToCollision(v, o), 2)
                 THEN {put(w2) : w2 \in
                         Bind(slowDown(v, rnd),
                              LAMBDA w : attemptLaneChange(w, i, all, TRUE))}
                 ELSE {put(w) : w \in slowDown(v, rnd)}
        ELSE IF sameHazard # {}
        THEN LET o == all[MinOf(sameHazard)]
             IN  IF aheadDistance(v, o) < v.width * 2
                 THEN {put(w2) : w2 \in
                         Bind(slowDown(v, rnd),
                              LAMBDA w : attemptLaneChange(w, i, all, FALSE))}
                 ELSE {put(w) : w \in slowDown(v, rnd)}
        ELSE {st}

-----------------------------------------------------------------------------
(* Vehicle: collisions with other vehicles *)

boxesOverlap(v, o) ==
    /\ v.x - (v.width \div 2) < o.x + (o.width \div 2)
    /\ v.x + (v.width \div 2) > o.x - (o.width \div 2)
    /\ v.y - (v.height \div 2) < o.y + (o.height \div 2)
    /\ v.y + (v.height \div 2) > o.y - (o.height \div 2)

\* Math.abs(speed) < Math.abs(originalSpeed) * 0.3
isSlow(v) == 10 * Abs(v.speed) < 3 * Abs(v.originalSpeed)

\* (variant: every overlapping vehicle is crashed into)
crashPartnersAllOverlapping(st, i) ==
    LET v == st.vs[i]
    IN  {j \in DOMAIN st.vs :
            /\ j # i
            /\ ~st.vs[j].hasCrashed
            /\ boxesOverlap(v, st.vs[j])}

\* the vehicles the loop of checkForVehicleCollisions would crash into
crashPartners(st, i) ==
    LET v == st.vs[i]
    IN  {j \in DOMAIN st.vs :
            /\ j # i
            /\ ~st.vs[j].hasCrashed
            /\ boxesOverlap(v, st.vs[j])
            /\ st.vs[j].direction # v.direction
            /\ ~(isSlow(v) /\ isSlow(st.vs[j]))}

\* (variant: only this vehicle crashes)
checkForVehicleCollisionsAlone(st, i) ==
    IF st.vs[i].hasCrashed \/ crashPartners(st, i) = {} THEN st
    ELSE [crash(st, i) EXCEPT !.collisions = @ + 1]

\* History: crashInfo is what the loop saw of the pair it crashed
checkForVehicleCollisions(st, i) ==
    IF st.vs[i].hasCrashed \/ crashPartners(st, i) = {} THEN st
    ELSE LET j == MinOf(crashPartners(st, i))
             seen(a, b) ==
                 <<[other          |-> st.vs[b].id,
                    overlap        |-> boxesOverlap(st.vs[a], st.vs[b]),
                    otherDirection |-> st.vs[b].direction,
                    slow           |-> isSlow(st.vs[a]),
                    otherSlow      |-> isSlow(st.vs[b])]>>
         IN  [crash(crash(st, i), j) EXCEPT !.collisions = @ + 1,
                                            !.vs[i].crashInfo = seen(i, j),
                                            !.vs[j].crashInfo = seen(j, i)]


-----------------------------------------------------------------------------
(* Vehicle.update *)

\* (variant: the ramp takes the whole step acceleration * deltaTime)
rampSpeedOvershooting(v, dt) ==
    IF v.speed # v.targetSpeed
    THEN LET speedDiff == v.targetSpeed - v.speed
             s == v.speed + ((acceleration * dt) \div 10) * Sign(speedDiff)
         IN  [v EXCEPT !.speed =
                 IF Abs(s - v.targetSpeed) < 1 THEN v.targetSpeed ELSE s]
    ELSE v

\* smooth acceleration/deceleration towards targetSpeed
rampSpeed(v, dt) ==
    IF v.speed # v.targetSpeed
    THEN LET speedDiff == v.targetSpeed - v.speed
             speedChangeThisFrame ==
                 Min2(Abs(speedDiff), (acceleration * dt) \div 10)
                     * Sign(speedDiff)
             s == v.speed + speedChangeThisFrame
         IN  [v EXCEPT !.speed =
                 IF Abs(s - v.targetSpeed) < 1 THEN v.targetSpeed ELSE s]
    ELSE v

outOfBounds(v) ==
    \/ v.direction = "left"  /\ v.x < -v.width
    \/ v.direction = "right" /\ v.x > canvasWidth + v.width

\* (variant: the honk ends without a cooldown)
honkStepWithoutCooldown(v, dt, rnd) ==
    IF v.isHonking
    THEN IF v.honkTimer + dt >= v.honkDuration
         THEN {[stopHonkSound(v) EXCEPT !.honkTimer = 0]}
         ELSE {[v EXCEPT !.honkTimer = @ + dt]}
    ELSE IF v.honkCooldown > 0
         THEN {[v EXCEPT !.honkCooldown = @ - dt]}
         ELSE {v}

\* the honking block at the end of update; the new cooldown (3..7 s) is
\* drawn from rnd.cooldowns
honkStep(v, dt, rnd) ==
    IF v.isHonking
    THEN IF v.honkTimer + dt >= v.honkDuration
         THEN {[stopHonkSound(v) EXCEPT !.honkTimer = 0, !.honkCooldown = c] :
                  c \in rnd.cooldowns}
         ELSE {[v EXCEPT !.honkTimer = @ + dt]}
    ELSE IF v.honkCooldown > 0
         THEN {[v EXCEPT !.honkCooldown = @ - dt]}
         ELSE {v}

\* (variant: the lane change is over on its first update)
continueLaneChangeAtOnce(st, i, dt) ==
    LET v == st.vs[i]
        w == [v EXCEPT !.lane = v.targetLane,
                       !.y = v.targetY,
                       !.isChangingLane = FALSE,
                       !.laneChangeProgress = 0]
    IN  [st EXCEPT !.vs[i] =
            IF w.isSlowingDown
            THEN checkIfCanReturnToNormalSpeed(w, i, st.vs)
            ELSE w]

\* the lane-change branch of update (isChangingLane is set)
continueLaneChange(st, i, dt) ==
    LET v == st.vs[i]
        p == v.laneChangeProgress + dt
    IN  IF p >= laneChangeSpeed
        THEN LET w == [v EXCEPT !.lane = v.targetLane,
                                !.y = v.targetY,
                                !.isChangingLane = FALSE,
                                !.laneChangeProgress = 0]
             IN  [st EXCEPT !.vs[i] =
                     IF w.isSlowingDown
                     THEN checkIfCanReturnToNormalSpeed(w, i, st.vs)
                     ELSE w]
        ELSE [st EXCEPT !.vs[i] =
                 [v EXCEPT !.laneChangeProgress = p,
                           !.y = v.originalY +
                                 ((v.targetY - v.originalY) * p)
                                     \div laneChangeSpeed]]

\* the avoidance branch of update (not changing lanes).  History:
\* returnCheck is what the vehicle's latest update found when it looked
\* whether it may return to normal speed, "none" when it did not look
avoidAndCollide(st, i, rnd) ==
    Bind(detectAndAvoidCollisions(st, i, rnd),
         LAMBDA s :
            LET w  == s.vs[i]
                w2 == IF w.isSlowingDown /\ ~w.isChangingLane
                      THEN [checkIfCanReturnToNormalSpeed(w, i, s.vs) EXCEPT
                               !.returnCheck =
                                   IF hazardAhead(w, i, s.vs) THEN "hazard"
                                   ELSE "clear"]
                      ELSE w
            IN  {checkForVehicleCollisions(s2, i) :
                    s2 \in {[s EXCEPT !.vs[i] = w2]}})

\* (variant: a crashed vehicle keeps rolling at its original speed)
crashedUpdateRolling(st, i, dt) ==
    LET v == st.vs[i]
    IN  [st EXCEPT !.vs[i].x = v.x + v.originalSpeed * dt,
                   !.vs[i].fire = v.fire + dt,
                   !.keep[i] = (v.fire + dt < crashDuration)]

\* the part of update a crashed vehicle runs: its fire, or its crash timer
crashedUpdate(st, i, dt) ==
    LET v == st.vs[i]
    IN  IF v.fire # -1
        THEN [st EXCEPT !.vs[i].fire = v.fire + dt,
                        !.keep[i] = (v.fire + dt < crashDuration)]
        ELSE [st EXCEPT !.vs[i].crashTimer = v.crashTimer + dt,
                        !.keep[i] = (v.crashTimer + dt < crashDuration)]

\* the part of update a running vehicle executes
movingUpdate(st, i, dt, rnd) ==
    LET v2 == rampSpeed(st.vs[i], dt)
        v3 == [v2 EXCEPT !.x = @ + v2.speed * dt]
    IN  Bind({[st EXCEPT !.vs[i] = v3]},
             LAMBDA s3 :
                IF outOfBounds(s3.vs[i]) THEN {[s3 EXCEPT !.keep[i] = FALSE]}
                ELSE Bind(IF s3.vs[i].isChangingLane
                          THEN {continueLaneChange(s3, i, dt)}
                          ELSE avoidAndCollide(s3, i, rnd),
                          LAMBDA s : {[s EXCEPT !.vs[i] = w] :
                                         w \in honkStep(s.vs[i], dt, rnd)}))

\* (variant: the update of a crashed vehicle does not run its timers)
VehicleUpdateWreckStays(st, i, dt, rnd) ==
    LET v0 == [elapse(st.vs[i], dt) EXCEPT !.returnCheck = "none",
                                           !.attempt = <<>>]
        v1 == IF v0.hitByPoop THEN [v0 EXCEPT !.hitTimer = @ + dt] ELSE v0
        s1 == [st EXCEPT !.vs[i] = v1]
    IN  IF v1.hasCrashed
        THEN {s1}
        ELSE IF v1.hitByPoop /\ v1.hitTimer >= v1.hitDuration
        THEN {[s1 EXCEPT !.keep[i] = FALSE]}
        ELSE movingUpdate(s1, i, dt, rnd)

\* vehicle.update(deltaTime, allVehicles) for the vehicle at index i; keep[i]
\* is the value it returns
VehicleUpdate(st, i, dt, rnd) ==
    LET v0 == [elapse(st.vs[i], dt) EXCEPT !.returnCheck = "none",
                                           !.attempt = <<>>]
        v1 == IF v0.hitByPoop THEN [v0 EXCEPT !.hitTimer = @ + dt] ELSE v0
    IN  Bind({[st EXCEPT !.vs[i] = v1]},
             LAMBDA s1 :
                IF s1.vs[i].hitByPoop
                   /\ s1.vs[i].hitTimer >= s1.vs[i].hitDuration
                THEN {[s1 EXCEPT !.keep[i] = FALSE]}
                ELSE IF s1.vs[i].hasCrashed
                THEN {crashedUpdate(s1, i, dt)}
                ELSE movingUpdate(s1, i, dt, rnd))

RECURSIVE updateFromAllMoving(_, _, _, _)
RECURSIVE updateFrom(_, _, _, _)
\* (variant: a crashed vehicle is updated like a running one)
updateFromAllMoving(st, i, dt, rnd) ==
    IF i > Len(st.vs) THEN {st}
    ELSE Bind(movingUpdate(st, i, dt, rnd),
              LAMBDA s : updateFromAllMoving(s, i + 1, dt, rnd))

updateFrom(st, i, dt, rnd) ==
    IF i > Len(st.vs) THEN {st}
    ELSE Bind(VehicleUpdate(st, i, dt, rnd),
              LAMBDA s : updateFrom(s, i + 1, dt, rnd))

RECURSIVE keepOnly(_, _)
keepOnly(vs, keep) ==
    IF vs = <<>> THEN <<>>
    ELSE (IF keep[1] THEN <<vs[1]>> ELSE <<>>)
             \o keepOnly(Tail(vs), Tail(keep))

\* this.vehicles = this.vehicles.filter(v => v.update(deltaTime, this.vehicles)):
\* the updates run in array order on the one shared array
updateVehicles(st, dt, rnd) ==
    {[s EXCEPT !.vs = keepOnly(s.vs, s.keep),
               !.keep = [k \in DOMAIN keepOnly(s.vs, s.keep) |-> TRUE]] :
        s \in updateFrom(st, 1, dt, rnd)}


-----------------------------------------------------------------------------
(* Vehicle: being hit by a dropping *)

\* bounding boxes of the vehicle and of the dropping d overlap
checkCollision(v, d) ==
    /\ v.x - (v.width \div 2) < d.x + (d.width \div 2)
    /\ v.x + (v.width \div 2) > d.x - (d.width \div 2)
    /\ v.y - (v.height \div 2) < d.y + (d.height \div 2)
    /\ v.y + (v.height \div 2) > d.y - (d.height \div 2)

hitDurationFor(powerLevel) ==
    CASE powerLevel = 5 -> 0
      [] powerLevel = 4 -> 5
      [] powerLevel = 3 -> 10
      [] powerLevel = 2 -> 20
      [] OTHER          -> 30

\* (variant: only a vehicle that is honking scores)
hitPointsWithoutGrace(v) ==
    IF v.hitByPoop THEN 0
    ELSE IF v.type = "emergency" THEN -15
    ELSE IF v.isHonking THEN 5 ELSE -10

\* the score delta handleHit returns
hitPoints(v) ==
    IF v.hitByPoop THEN 0
    ELSE IF v.type = "emergency" THEN -15
    ELSE IF isCurrentlyHonking(v) THEN 5 ELSE -10

\* (variant: a vehicle that was hit before is marked again)
handleHitAgain(v, powerLevel) ==
    [stopHonkSound(v) EXCEPT !.hitByPoop = TRUE,
                             !.hitTimer = 0,
                             !.hitDuration = hitDurationFor(powerLevel),
                             !.hits = @ + 1,
                             !.hitCalls = @ + 1,
                             !.points = hitPoints(v),
                             !.honkingAtHit = v.isHonking,
                             !.ageAtHit = v.honkAge]

\* the vehicle after handleHit(powerLevel).  History: points is the score
\* delta the first call returned, honkingAtHit and ageAtHit are isHonking
\* and the age of lastHonkTime when it was made, hitCalls counts the calls
\* and laterPoints lists what the calls after the first returned
handleHit(v, powerLevel) ==
    IF v.hitByPoop
    THEN [v EXCEPT !.hitCalls = @ + 1,
                   !.laterPoints = Append(@, hitPoints(v))]
    ELSE [stopHonkSound(v) EXCEPT !.hitByPoop = TRUE,
                                  !.hitTimer = 0,
                                  !.hitDuration = hitDurationFor(powerLevel),
                                  !.hits = @ + 1,
                                  !.hitCalls = @ + 1,
                                  !.points = hitPoints(v),
                                  !.honkingAtHit = v.isHonking,
                                  !.ageAtHit = v.honkAge]

-----------------------------------------------------------------------------
(* Bird *)

birdSpeed  == 200
birdWidth  == 480
birdHeight == 480
maxPowerUpLevel == 5

powerUpLevels(level) ==
    CASE level = 0 -> [poopSize |-> 100, poopCooldown |-> 10, splashRadius |-> 0,
                       poopType |-> "single", poopSpeed |-> 200, poopCount |-> 1]
      [] level = 1 -> [poopSize |-> 150, poopCooldown |-> 8, splashRadius |-> 200,
                       poopType |-> "single", poopSpeed |-> 250, poopCount |-> 1]
      [] level = 2 -> [poopSize |-> 250, poopCooldown |-> 6, splashRadius |-> 400,
                       poopType |-> "single", poopSpeed |-> 300, poopCount |-> 1]
      [] level = 3 -> [poopSize |-> 200, poopCooldown |-> 5, splashRadius |-> 600,
                       poopType |-> "multi", poopSpeed |-> 350, poopCount |-> 3]
      [] level = 4 -> [poopSize |-> 150, poopCooldown |-> 4, splashRadius |-> 800,
                       poopType |-> "multi", poopSpeed |-> 400, poopCount |-> 5]
      [] level = 5 -> [poopSize |-> 100, poopCooldown |-> 3, splashRadius |-> 1000,
                       poopType |-> "laser", poopSpeed |-> 600, poopCount |-> 10]

\* new Bird(canvas.width / 2, canvas.height / 2, ...); activeDropping is a
\* sequence of length 0 (null) or 1.  History: sinceDrop is the deltaTime
\* accumulated since the last successful drop(), counted up to the longest
\* cooldown, and lastCooldown the cooldown that drop started
Bird ==
    [x |-> canvasWidth \div 2, y |-> canvasHeight \div 2,
     movingLeft |-> FALSE, movingRight |-> FALSE,
     movingUp |-> FALSE, movingDown |-> FALSE,
     activeDropping |-> <<>>,
     bellyPoints |-> 0, powerUpLevel |-> 0,
     poopSize |-> powerUpLevels(0).poopSize,
     poopCooldown |-> powerUpLevels(0).poopCooldown,
     splashRadius |-> powerUpLevels(0).splashRadius,
     poopType |-> powerUpLevels(0).poopType,
     poopSpeed |-> powerUpLevels(0).poopSpeed,
     poopCount |-> powerUpLevels(0).poopCount,
     droppingCooldownTimer |-> 0,
     health |-> 100, isDead |-> FALSE,
     sinceDrop |-> powerUpLevels(0).poopCooldown, lastCooldown |-> 0]

\* (variant: the stats are not copied)
updatePowerUpPropertiesSkipped(b) == b

\* the stats of the bird's droppings, copied from the row of its level
updatePowerUpProperties(b) ==
    LET levelProps == powerUpLevels(b.powerUpLevel)
    IN  [b EXCEPT !.poopSize = levelProps.poopSize,
                  !.poopCooldown = levelProps.poopCooldown,
                  !.splashRadius = levelProps.splashRadius,
                  !.poopType = levelProps.poopType,
                  !.poopSpeed = levelProps.poopSpeed,
                  !.poopCount = levelProps.poopCount]

\* (variant: the level starts again at 0 after the last row)
eatFoodWrapping(b, food) ==
    LET points == b.bellyPoints + food.bellyPoints
    IN  updatePowerUpProperties(
            [b EXCEPT !.bellyPoints = points,
                      !.powerUpLevel = (points \div 5) % (maxPowerUpLevel + 1)])

eatFood(b, food) ==
    LET points   == b.bellyPoints + food.bellyPoints
        newLevel == Min2(points \div 5, maxPowerUpLevel)
        fed      == [b EXCEPT !.bellyPoints = points]
    IN  IF newLevel > b.powerUpLevel
        THEN updatePowerUpProperties([fed EXCEPT !.powerUpLevel = newLevel])
        ELSE fed

createSingleDropping(b, id) ==
    [id |-> id,
     x |-> b.x + (birdWidth \div 2), y |-> b.y + (birdHeight \div 2),
     width |-> b.poopSize, height |-> b.poopSize,
     speed |-> b.poopSpeed, splashRadius |-> b.splashRadius,
     type |-> "single", poops |-> <<>>, lifetime |-> 0]

createMultiDropping(b, id) ==
    [id |-> id,
     x |-> b.x + (birdWidth \div 2), y |-> b.y + (birdHeight \div 2),
     width |-> b.poopSize * 3, height |-> b.poopSize * 3,
     speed |-> b.poopSpeed, splashRadius |-> b.splashRadius,
     type |-> "multi",
     poops |-> [k \in 1..b.poopCount |->
                  [x |-> b.x + (birdWidth \div 2)
                             + ((k - 1) - (b.poopCount \div 2)) * 150,
                   y |-> b.y + (birdHeight \div 2),
                   width |-> b.poopSize, height |-> b.poopSize,
                   splashRadius |-> b.splashRadius \div 2,
                   active |-> TRUE]],
     lifetime |-> 0]

createLaserDropping(b, id) ==
    [id |-> id,
     x |-> b.x + (birdWidth \div 2), y |-> b.y + (birdHeight \div 2),
     width |-> b.poopSize * 2, height |-> 4000,
     speed |-> b.poopSpeed, splashRadius |-> b.splashRadius,
     type |-> "laser",
     poops |-> [k \in 1..b.poopCount |->
                  [x |-> b.x + (birdWidth \div 2),
                   y |-> b.y + (birdHeight \div 2)
                             + (k - 1) * (4000 \div b.poopCount),
                   width |-> b.poopSize, height |-> b.poopSize,
                   splashRadius |-> b.splashRadius \div 3,
                   active |-> TRUE]],
     lifetime |-> 6]

\* (variant: the cooldown is not looked at)
dropAllowedAnytime(b) == b.activeDropping = <<>>

\* drop() is rejected while a dropping is active or the cooldown runs
dropAllowed(b) == b.activeDropping = <<>> /\ ~(b.droppingCooldownTimer > 0)

\* (variant: no cooldown is started)
dropWithoutCooldown(b, id) ==
    LET d == CASE b.poopType = "single" -> createSingleDropping(b, id)
               [] b.poopType = "multi"  -> createMultiDropping(b, id)
               [] b.poopType = "laser"  -> createLaserDropping(b, id)
    IN  [b EXCEPT !.activeDropping = <<d>>,
                  !.sinceDrop = 0, !.lastCooldown = b.poopCooldown]

\* the bird after a successful drop(); id numbers the new dropping
drop(b, id) ==
    LET d == CASE b.poopType = "single" -> createSingleDropping(b, id)
               [] b.poopType = "multi"  -> createMultiDropping(b, id)
               [] b.poopType = "laser"  -> createLaserDropping(b, id)
    IN  [b EXCEPT !.activeDropping = <<d>>,
                  !.droppingCooldownTimer = b.poopCooldown,
                  !.sinceDrop = 0, !.lastCooldown = b.poopCooldown]

\* one velocity component: speed on an axis, speed / sqrt(2) (141 px/s,
\* rounded down) on a diagonal
velocity(neg, pos, otherAxisMoving) ==
    LET raw == (IF pos THEN birdSpeed ELSE 0) - (IF neg THEN birdSpeed ELSE 0)
    IN  IF raw # 0 /\ otherAxisMoving THEN Sign(raw) * 141 ELSE raw

\* update of a 'multi' container: every active sub-poop falls and spreads
multiUpdate(d, dt) ==
    [d EXCEPT !.poops =
        [k \in DOMAIN d.poops |->
            LET q  == d.poops[k]
                y2 == q.y + d.speed * dt
                x2 == IF q.x < d.x THEN q.x - (3 * d.speed * dt) \div 10
                      ELSE IF q.x > d.x THEN q.x + (3 * d.speed * dt) \div 10
                      ELSE q.x
            IN  IF ~q.active THEN q
                ELSE [q EXCEPT !.x = x2, !.y = y2, !.active = ~(y2 > 8000)]]]

anyStillOnScreen(d) == \E k \in DOMAIN d.poops : d.poops[k].active

\* the active dropping after Bird.update moved it: <<>> when it was dropped
activeDroppingUpdate(d, dt) ==
    CASE d.type = "single" ->
            LET e == [d EXCEPT !.y = @ + d.speed * dt]
            IN  IF e.y > canvasHeight THEN <<>> ELSE <<e>>
      [] d.type = "multi" ->
            LET e == multiUpdate(d, dt)
            IN  IF anyStillOnScreen(e) THEN <<e>> ELSE <<>>
      [] d.type = "laser" ->
            LET e == [d EXCEPT !.lifetime = @ - dt]
            IN  IF e.lifetime > 0 THEN <<e>> ELSE <<>>

\* (variant: the position is not clamped to the canvas)
BirdUpdateUnclamped(b, dt) ==
    LET vxRaw == (IF b.movingRight THEN 1 ELSE 0) - (IF b.movingLeft THEN 1 ELSE 0)
        vyRaw == (IF b.movingDown THEN 1 ELSE 0) - (IF b.movingUp THEN 1 ELSE 0)
        vx == velocity(b.movingLeft, b.movingRight, vyRaw # 0)
        vy == velocity(b.movingUp, b.movingDown, vxRaw # 0)
    IN  [b EXCEPT !.x = b.x + vx * dt, !.y = b.y + vy * dt,
                  !.sinceDrop = Min2(powerUpLevels(0).poopCooldown, @ + dt)]

BirdUpdate(b, dt) ==
    LET vxRaw == (IF b.movingRight THEN 1 ELSE 0) - (IF b.movingLeft THEN 1 ELSE 0)
        vyRaw == (IF b.movingDown THEN 1 ELSE 0) - (IF b.movingUp THEN 1 ELSE 0)
        vx == velocity(b.movingLeft, b.movingRight, vyRaw # 0)
        vy == velocity(b.movingUp, b.movingDown, vxRaw # 0)
        x2 == Max2(0, Min2(canvasWidth - birdWidth, b.x + vx * dt))
        y2 == Max2(0, Min2(canvasHeight - birdHeight, b.y + vy * dt))
        a2 == IF b.activeDropping = <<>> THEN <<>>
              ELSE activeDroppingUpdate(b.activeDropping[1], dt)
        c2 == IF b.droppingCooldownTimer > 0
              THEN Max2(0, b.droppingCooldownTimer - dt)
              ELSE b.droppingCooldownTimer
    IN  [b EXCEPT !.x = x2, !.y = y2, !.activeDropping = a2,
                  !.droppingCooldownTimer = c2,
                  !.sinceDrop = Min2(powerUpLevels(0).poopCooldown, @ + dt)]


\* Bird.experienceHonk: a fixed deduction, never below 0; 0 is death
honkDamage == 20

experienceHonk(b) ==
    LET h == Max2(0, b.health - honkDamage)
    IN  [b EXCEPT !.health = h, !.isDead = (@ \/ h = 0)]

-----------------------------------------------------------------------------
(* Food *)

foodSize     == 300
foodLifespan == 150

Food(x, y, points) ==
    [x |-> x, y |-> y, bellyPoints |-> points, timeAlive |-> 0]

foodCollision(f, b) ==
    /\ f.x - (foodSize \div 2) < b.x + birdWidth
    /\ f.x + (foodSize \div 2) > b.x
    /\ f.y - (foodSize \div 2) < b.y + birdHeight
    /\ f.y + (foodSize \div 2) > b.y

-----------------------------------------------------------------------------
(* Game.  A game state g is the record of all the variables; every step of  *)
(* update maps a game state to the set of game states its random draws      *)
(* allow.  env names the sets the random draws are taken from.              *)

getVehicleSpawnInterval(w) == Max2(10, baseSpawnInterval - (w - 1) * 2)

\* (variant: the quota of the new wave is that of the old one)
startNewWaveSameQuota(g) ==
    [g EXCEPT !.wave = @ + 1,
              !.vehiclesSpawned = 0,
              !.waveTimer = 0]

\* (variant: the wave timer runs on)
startNewWaveKeepingTimer(g) ==
    [g EXCEPT !.wave = @ + 1,
              !.vehiclesPerWave = @ * 2,
              !.vehiclesSpawned = 0]

startNewWave(g) ==
    [g EXCEPT !.wave = @ + 1,
              !.vehiclesPerWave = @ * 2,
              !.vehiclesSpawned = 0,
              !.waveTimer = 0]

\* the first statements of update: the wave timer
waveStep(g, dt) ==
    LET g1 == [g EXCEPT !.waveTimer = @ + dt]
    IN  IF g1.waveTimer >= waveDuration THEN startNewWave(g1) ELSE g1

\* bird.update, then the Game takes the bird's active dropping over
birdStep(g, dt) ==
    LET b == BirdUpdate(g.bird, dt)
    IN  IF b.activeDropping # <<>>
        THEN [g EXCEPT !.bird = [b EXCEPT !.activeDropping = <<>>],
                       !.droppings = Append(@, b.activeDropping[1])]
        ELSE [g EXCEPT !.bird = b]

\* the directions in which an emergency sprite exists
emergencyDirections(sp) ==
    {d \in Directions : hasAssets(sp, "emergency", d)}

\* new Vehicle(...) with draws from env
newVehicles(g, env) ==
    {Vehicle(g.nextId, g.sprites, sel, lane, spd, honk, dur, asp) :
        sel \in UNION {selectVehicle(g.sprites, d, 0) : d \in env.directions},
        lane \in env.lanes, spd \in env.speeds, honk \in env.honks,
        dur \in env.honkDurations, asp \in env.aspects}

\* (variant: emergency mode does not change what is spawned)
spawnedVehiclesOrdinary(g, env) == newVehicles(g, env)

\* spawnVehicle: the pushed vehicle for every outcome of the draws
spawnedVehicles(g, env) ==
    IF g.emergencyMode /\ g.emergencyVehiclesRemaining > 0
          /\ emergencyDirections(g.sprites) # {}
    THEN {[v EXCEPT !.direction = d,
                    !.x = IF d = "left" THEN canvasWidth + (v.width \div 2)
                                        ELSE -(v.width \div 2),
                    !.speed = IF d = "left" THEN -spd ELSE spd,
                    !.originalSpeed = IF d = "left" THEN -spd ELSE spd,
                    !.targetSpeed = IF d = "left" THEN -spd ELSE spd,
                    !.type = "emergency"] :
             v \in newVehicles(g, env),
             d \in (IF emergencyDirections(g.sprites) = Directions
                    THEN env.directions
                    ELSE emergencyDirections(g.sprites)),
             spd \in env.speeds}
    ELSE newVehicles(g, env)

\* (variant: only an emergency vehicle takes from the budget)
spawnVehicleCountingEmergencies(g, env) ==
    {LET inEmergency == /\ g.emergencyMode /\ g.emergencyVehiclesRemaining > 0
                        /\ emergencyDirections(g.sprites) # {}
         left == IF inEmergency THEN g.emergencyVehiclesRemaining - 1
                 ELSE g.emergencyVehiclesRemaining
         w == IF v.isHonking THEN [playHonkSound(v) EXCEPT !.honkAge = -1]
              ELSE v
     IN  [g EXCEPT !.vehicles = Append(@, w),
                   !.nextId = @ + 1,
                   !.emergencyVehiclesRemaining = left,
                   !.emergencyMode = IF inEmergency /\ left <= 0 THEN FALSE ELSE @]
     : v \in spawnedVehicles(g, env)}

spawnVehicle(g, env) ==
    {LET inEmergency == g.emergencyMode /\ g.emergencyVehiclesRemaining > 0
         left == IF inEmergency THEN g.emergencyVehiclesRemaining - 1
                 ELSE g.emergencyVehiclesRemaining
         \* a vehicle spawned honking honks at once; lastHonkTime is then
         \* overwritten with Date.now() in ms
         w == IF v.isHonking THEN [playHonkSound(v) EXCEPT !.honkAge = -1]
              ELSE v
     IN  [g EXCEPT !.vehicles = Append(@, w),
                   !.nextId = @ + 1,
                   !.emergencyVehiclesRemaining = left,
                   !.emergencyMode = IF inEmergency /\ left <= 0 THEN FALSE ELSE @]
     : v \in spawnedVehicles(g, env)}

\* (variant: the number of vehicles on the road is not looked at)
vehicleSpawnStepCrowding(g, dt, env) ==
    LET g1 == [g EXCEPT !.vehicleSpawnTimer = @ + dt]
    IN  IF /\ g1.vehicleSpawnTimer >= getVehicleSpawnInterval(g1.wave)
           /\ g1.vehiclesSpawned < g1.vehiclesPerWave
        THEN {[g2 EXCEPT !.vehicleSpawnTimer = 0, !.vehiclesSpawned = @ + 1] :
                 g2 \in spawnVehicle(g1, env)}
        ELSE {g1}

vehicleSpawnStep(g, dt, env) ==
    LET g1 == [g EXCEPT !.vehicleSpawnTimer = @ + dt]
    IN  IF /\ g1.vehicleSpawnTimer >= getVehicleSpawnInterval(g1.wave)
           /\ Len(g1.vehicles) < maxVehicles
           /\ g1.vehiclesSpawned < g1.vehiclesPerWave
        THEN {[g2 EXCEPT !.vehicleSpawnTimer = 0, !.vehiclesSpawned = @ + 1] :
                 g2 \in spawnVehicle(g1, env)}
        ELSE {g1}

foodSpawnStep(g, dt, env) ==
    LET g1 == [g EXCEPT !.foodSpawnTimer = @ + dt]
    IN  IF g1.foodSpawnTimer >= foodSpawnInterval /\ Len(g1.foods) < maxFoods
        THEN {[g1 EXCEPT !.foods = Append(@, Food(f[1], f[2], f[3])),
                         !.foodSpawnTimer = 0] : f \in env.foods}
        ELSE {g1}

vehiclesStep(g, dt, env) ==
    {[g EXCEPT !.vehicles = s.vs,
               !.emergencyMode = s.emergencyMode,
               !.emergencyVehiclesRemaining = s.emergencyVehiclesRemaining,
               !.crashEvents = s.crashEvents,
               !.collisions = s.collisions] :
        s \in Bind({TrafficState(g.vehicles, g.emergencyMode,
                                 g.emergencyVehiclesRemaining,
                                 g.crashEvents, g.collisions)},
                   LAMBDA st : updateVehicles(st, dt, env))}

\* detection radius of a honking vehicle, growing 20% per wave up to wave 3,
\* 70% larger for an emergency vehicle
detectionRadius(v, w) ==
    LET base == 100 * (10 + (Min2(w, 3) - 1) * 2)
    IN  IF v.type = "emergency" THEN (base * 17) \div 10 ELSE base

heardBy(v, b, w) ==
    LET dx == v.x - (b.x + birdWidth \div 2)
        dy == v.y - (b.y + birdHeight \div 2)
    IN  /\ v.isHonking
        /\ dx * dx + dy * dy < detectionRadius(v, w) * detectionRadius(v, w)

RECURSIVE honkDamageFromEachOnce(_, _, _)
RECURSIVE honkDamageFrom(_, _, _)

\* (variant: one experienceHonk for every vehicle heard)
honkDamageFromEachOnce(vs, b, w) ==
    IF vs = <<>> THEN b
    ELSE LET v  == Head(vs)
             b1 == IF ~heardBy(v, b, w) THEN b ELSE experienceHonk(b)
         IN  honkDamageFromEachOnce(Tail(vs), b1, w)

\* the loop over the vehicles: experienceHonk for every honking vehicle
\* within its detection radius, twice for an emergency vehicle
honkDamageFrom(vs, b, w) ==
    IF vs = <<>> THEN b
    ELSE LET v  == Head(vs)
             b1 == IF ~heardBy(v, b, w) THEN b
                   ELSE IF v.type = "emergency"
                        THEN experienceHonk(experienceHonk(b))
                        ELSE experienceHonk(b)
         IN  honkDamageFrom(Tail(vs), b1, w)

checkHonkingVehiclesNearBird(g) ==
    [g EXCEPT !.bird = honkDamageFrom(g.vehicles, g.bird, g.wave)]

RECURSIVE foodsFrom(_, _, _)
foodsFrom(g, fs, dt) ==
    IF fs = <<>> THEN [g EXCEPT !.foods = <<>>]
    ELSE LET f == [Head(fs) EXCEPT !.timeAlive = @ + dt]
         IN  IF f.timeAlive >= foodLifespan
             THEN foodsFrom(g, Tail(fs), dt)
             ELSE IF foodCollision(f, g.bird)
             THEN foodsFrom([g EXCEPT !.bird = eatFood(g.bird, f)], Tail(fs), dt)
             ELSE LET r == foodsFrom(g, Tail(fs), dt)
                  IN  [r EXCEPT !.foods = <<f>> \o @]

foodsStep(g, dt) == foodsFrom(g, g.foods, dt)


\* the vehicles a dropping hits: directly, or within its splash radius
hitVehicles(vs, d) ==
    {i \in DOMAIN vs :
        \/ checkCollision(vs[i], d)
        \/ /\ d.splashRadius > 0
           /\ (vs[i].x - d.x) * (vs[i].x - d.x) + (vs[i].y - d.y) * (vs[i].y - d.y)
                 <= d.splashRadius * d.splashRadius}

\* (variant: the sum as it is)
addPointsUnclamped(sc, points) == sc + points

\* score after one hit: never below 0
addPoints(sc, points) == Max2(0, sc + points)

\* the second pass: handleHit on every hit vehicle, in array order, from
\* index i on; id is the dropping that hit
RECURSIVE handleHits(_, _, _, _)
handleHits(g, hit, i, id) ==
    IF i > Len(g.vehicles) THEN g
    ELSE IF i \notin hit THEN handleHits(g, hit, i + 1, id)
    ELSE LET v      == g.vehicles[i]
             points == hitPoints(v)
             g1 == [g EXCEPT
                      !.vehicles[i] = handleHit(v, g.bird.powerUpLevel),
                      !.score = addPoints(@, points),
                      !.scoreLog[id] = IF points # 0 THEN @ + 1 ELSE @]
         IN  handleHits(g1, hit, i + 1, id)

RECURSIVE droppingsFromKeeping(_, _, _)
RECURSIVE droppingsFrom(_, _, _)

\* (variant: the height the sub-poops of bird.js are tested against)
onScreenTo800(d) == d.y < 8000

\* the dropping is above the lower edge of the canvas
onScreen(d) == d.y < canvasHeight

\* (variant: a dropping that has hit stays in the list)
droppingsFromKeeping(g, ds, dt) ==
    IF ds = <<>> THEN [g EXCEPT !.droppings = <<>>]
    ELSE LET d   == [Head(ds) EXCEPT !.y = @ + Head(ds).speed * dt]
             hit == hitVehicles(g.vehicles, d)
             g1  == handleHits(g, hit, 1, d.id)
             r   == droppingsFromKeeping(g1, Tail(ds), dt)
         IN  IF onScreen(d)
             THEN [r EXCEPT !.droppings = <<d>> \o @]
             ELSE r

\* the droppings filter, from the dropping list ds on
droppingsFrom(g, ds, dt) ==
    IF ds = <<>> THEN [g EXCEPT !.droppings = <<>>]
    ELSE LET d   == [Head(ds) EXCEPT !.y = @ + Head(ds).speed * dt]
             hit == hitVehicles(g.vehicles, d)
             g1  == handleHits(g, hit, 1, d.id)
             r   == droppingsFrom(g1, Tail(ds), dt)
         IN  IF hit = {} /\ onScreen(d)
             THEN [r EXCEPT !.droppings = <<d>> \o @]
             ELSE r

droppingsStep(g, dt) == droppingsFrom(g, g.droppings, dt)

\* (variant: the quota alone ends the wave)
waveEndStepOnQuota(g) ==
    IF g.vehiclesSpawned >= g.vehiclesPerWave
    THEN startNewWave(g)
    ELSE g

\* the last test of update: all vehicles spawned and none left
waveEndStep(g) ==
    IF g.vehiclesSpawned >= g.vehiclesPerWave /\ Len(g.vehicles) = 0
    THEN startNewWave(g)
    ELSE g

\* what update does when the bird is alive, after the wave timer
aliveUpdate(g, dt, env) ==
    LET spawned == Bind(vehicleSpawnStep(birdStep(g, dt), dt, env),
                        LAMBDA s : foodSpawnStep(s, dt, env))
        moved   == Bind(spawned, LAMBDA s : vehiclesStep(s, dt, env))
    IN  {waveEndStep(droppingsStep(foodsStep(
             checkHonkingVehiclesNearBird(s), dt), dt)) : s \in moved}

\* Game.update(deltaTime): the set of game states it can end in
update(g, dt, env) ==
    LET g1 == waveStep(g, dt)
    IN  {[s EXCEPT !.ticks = @ + 1] :
            s \in (IF g1.bird.isDead THEN {g1} ELSE aliveUpdate(g1, dt, env))}

-----------------------------------------------------------------------------
(* The state as a record, and back *)

G == [vehicles |-> vehicles, droppings |-> droppings, foods |-> foods,
      bird |-> bird, score |-> score, wave |-> wave, waveTimer |-> waveTimer,
      vehiclesPerWave |-> vehiclesPerWave, vehiclesSpawned |-> vehiclesSpawned,
      vehicleSpawnTimer |-> vehicleSpawnTimer, foodSpawnTimer |-> foodSpawnTimer,
      emergencyMode |-> emergencyMode,
      emergencyVehiclesRemaining |-> emergencyVehiclesRemaining,
      sprites |-> sprites, nextId |-> nextId, crashEvents |-> crashEvents,
      collisions |-> collisions, scoreLog |-> scoreLog, ticks |-> ticks]

\* the state of main.js
Loop == [gamePaused |-> gamePaused, lastTimestamp |-> lastTimestamp,
         pendingFrames |-> pendingFrames, now |-> now, started |-> started,
         lastDelta |-> lastDelta, updatesInFrame |-> updatesInFrame]

LoopBecomes(l) ==
    /\ gamePaused' = l.gamePaused
    /\ lastTimestamp' = l.lastTimestamp
    /\ pendingFrames' = l.pendingFrames
    /\ now' = l.now
    /\ started' = l.started
    /\ lastDelta' = l.lastDelta
    /\ updatesInFrame' = l.updatesInFrame

\* the globals of main.js when the page has loaded
NewLoop == [gamePaused |-> FALSE, lastTimestamp |-> 0, pendingFrames |-> 0,
            now |-> 0, started |-> FALSE, lastDelta |-> 0,
            updatesInFrame |-> 0]

GameBecomes(g) ==
    /\ vehicles' = g.vehicles
    /\ droppings' = g.droppings
    /\ foods' = g.foods
    /\ bird' = g.bird
    /\ score' = g.score
    /\ wave' = g.wave
    /\ waveTimer' = g.waveTimer
    /\ vehiclesPerWave' = g.vehiclesPerWave
    /\ vehiclesSpawned' = g.vehiclesSpawned
    /\ vehicleSpawnTimer' = g.vehicleSpawnTimer
    /\ foodSpawnTimer' = g.foodSpawnTimer
    /\ emergencyMode' = g.emergencyMode
    /\ emergencyVehiclesRemaining' = g.emergencyVehiclesRemaining
    /\ sprites' = g.sprites
    /\ nextId' = g.nextId
    /\ crashEvents' = g.crashEvents
    /\ collisions' = g.collisions
    /\ scoreLog' = g.scoreLog
    /\ ticks' = g.ticks

\* a step of the game alone
Becomes(g) == GameBecomes(g) /\ LoopBecomes(Loop)

\* new Game(canvas), with the sprites sp the asset loader delivered
NewGame(sp) ==
    [vehicles |-> <<>>, droppings |-> <<>>, foods |-> <<>>,
     bird |-> Bird, score |-> 0, wave |-> 1, waveTimer |-> 0,
     vehiclesPerWave |-> initialVehiclesPerWave, vehiclesSpawned |-> 0,
     vehicleSpawnTimer |-> 0, foodSpawnTimer |-> 0,
     emergencyMode |-> FALSE, emergencyVehiclesRemaining |-> 0,
     sprites |-> sp, nextId |-> 1, crashEvents |-> 0,
     collisions |-> 0, scoreLog |-> <<>>, ticks |-> 0]

AllSprites == [a \in Types \X Directions |-> TRUE]


-----------------------------------------------------------------------------
(* Traffic specification: the Vehicle class driven the way the Game drives  *)
(* it -- spawnVehicle, the vehicles filter of update, handleHit -- with the *)
(* bird idle and no droppings.                                              *)

TrafficEnv ==
    [directions    |-> Directions,
     lanes         |-> {2},
     speeds        |-> {150},
     honks         |-> {TRUE, FALSE},
     honkDurations |-> {20},
     aspects       |-> {200},
     pcts          |-> {25},
     honkOnSlow    |-> {TRUE, FALSE},
     cooldowns     |-> {30},
     foods         |-> {<<6000, 1000, 1>>}]

\* deltaTime of the traffic updates, in ds
TrafficDts == {10}

\* power-up levels handleHit is called with
HitLevels == {0}

OnlyCars == [a \in Types \X Directions |-> a[1] = "car"]

Starts(g) ==
    /\ vehicles = g.vehicles
    /\ droppings = g.droppings
    /\ foods = g.foods
    /\ bird = g.bird
    /\ score = g.score
    /\ wave = g.wave
    /\ waveTimer = g.waveTimer
    /\ vehiclesPerWave = g.vehiclesPerWave
    /\ vehiclesSpawned = g.vehiclesSpawned
    /\ vehicleSpawnTimer = g.vehicleSpawnTimer
    /\ foodSpawnTimer = g.foodSpawnTimer
    /\ emergencyMode = g.emergencyMode
    /\ emergencyVehiclesRemaining = g.emergencyVehiclesRemaining
    /\ sprites = g.sprites
    /\ nextId = g.nextId
    /\ crashEvents = g.crashEvents
    /\ collisions = g.collisions
    /\ scoreLog = g.scoreLog
    /\ ticks = g.ticks
    /\ gamePaused = NewLoop.gamePaused
    /\ lastTimestamp = NewLoop.lastTimestamp
    /\ pendingFrames = NewLoop.pendingFrames
    /\ now = NewLoop.now
    /\ started = NewLoop.started
    /\ lastDelta = NewLoop.lastDelta
    /\ updatesInFrame = NewLoop.updatesInFrame

TrafficInit == Starts(NewGame(OnlyCars))

\* game.spawnVehicle()
SpawnVehicle ==
    /\ nextId <= MaxSpawned
    /\ \E g \in spawnVehicle(G, TrafficEnv) : Becomes(g)

\* the vehicles filter of Game.update
VehiclesUpdate ==
    \E dt \in TrafficDts :
        \E g \in vehiclesStep(G, dt, TrafficEnv) : Becomes(g)

\* vehicle.handleHit(powerLevel) on the vehicle at index i
HandleHit ==
    \E i \in DOMAIN vehicles, level \in HitLevels :
        /\ ~vehicles[i].hitByPoop
        /\ Becomes([G EXCEPT !.vehicles[i] = handleHit(@, level)])

TrafficNext == SpawnVehicle \/ VehiclesUpdate \/ HandleHit

SpecTraffic == TrafficInit /\ [][TrafficNext]_vars

\* the traffic state of the current game state
Traffic ==
    TrafficState(vehicles, emergencyMode, emergencyVehiclesRemaining,
                 crashEvents, collisions)

-----------------------------------------------------------------------------
(* Game specification: Game.update every 0.1 s (the frame time the game     *)
(* loop caps deltaTime at), and the space key.                              *)

GameEnv ==
    [directions    |-> {"right"},
     lanes         |-> {2, 3},
     speeds        |-> {100, 150},
     honks         |-> {TRUE, FALSE},
     honkDurations |-> {20},
     aspects       |-> {200},
     pcts          |-> {25},
     honkOnSlow    |-> {FALSE},
     cooldowns     |-> {30},
     foods         |-> {<<6000, 1000, 1>>}]

\* deltaTime of the game updates, in ds
GameDts == {1}

GameInit == Starts(NewGame(OnlyCars))

\* game.update(deltaTime), called by gameLoop
Update ==
    /\ ticks < MaxTicks
    /\ \E dt \in GameDts : \E g \in update(G, dt, GameEnv) : Becomes(g)

\* the game after an accepted game.bird.drop()
dropped(g) ==
    [g EXCEPT !.bird = drop(g.bird, Len(g.scoreLog) + 1),
              !.scoreLog = Append(@, 0)]

\* handleKeyDown(' '): game.bird.drop()
DropKey ==
    /\ Len(scoreLog) < MaxDrops
    /\ dropAllowed(bird)
    /\ Becomes(dropped(G))

GameNext == Update \/ DropKey

SpecGame == GameInit /\ [][GameNext]_vars

-----------------------------------------------------------------------------
(* Flight specification: the first seconds of a game, the bird climbing and *)
(* dropping as fast as the cooldown lets it.                                *)

FlightUpdate ==
    /\ ticks < MaxFlightTicks
    /\ \E dt \in GameDts : \E g \in update(G, dt, GameEnv) : Becomes(g)

\* handleKeyDown('ArrowUp'): bird.startMovingUp()
ArrowUpDown ==
    /\ ~bird.movingUp
    /\ Becomes([G EXCEPT !.bird.movingUp = TRUE])

\* handleKeyUp('ArrowUp'): bird.stopMovingUp()
ArrowUpUp ==
    /\ bird.movingUp
    /\ Becomes([G EXCEPT !.bird.movingUp = FALSE])

RapidDropKey ==
    /\ Len(scoreLog) < MaxRapidDrops
    /\ dropAllowed(bird)
    /\ Becomes(dropped(G))

FlightNext == FlightUpdate \/ ArrowUpDown \/ ArrowUpUp \/ RapidDropKey

SpecFlight == GameInit /\ [][FlightNext]_vars

-----------------------------------------------------------------------------
(* Wave specification: Game.update in steps of 1 s through the waves, with  *)
(* honking traffic in the lane under the bird and the left arrow key.       *)

WaveEnv ==
    [directions    |-> {"right"},
     lanes         |-> {1},
     speeds        |-> {150},
     honks         |-> {TRUE, FALSE},
     honkDurations |-> {30},
     aspects       |-> {200},
     pcts          |-> {25},
     honkOnSlow    |-> {FALSE},
     cooldowns     |-> {30},
     foods         |-> {<<6000, 1000, 1>>}]

\* deltaTime of the wave updates, in ds
WaveDts == {10}

WaveUpdate ==
    /\ wave <= MaxWave
    /\ \E dt \in WaveDts : \E g \in update(G, dt, WaveEnv) : Becomes(g)

\* handleKeyDown('ArrowLeft'): bird.startMovingLeft()
ArrowLeftDown ==
    /\ ~bird.movingLeft
    /\ Becomes([G EXCEPT !.bird.movingLeft = TRUE])

\* handleKeyUp('ArrowLeft'): bird.stopMovingLeft()
ArrowLeftUp ==
    /\ bird.movingLeft
    /\ Becomes([G EXCEPT !.bird.movingLeft = FALSE])

WaveNext == WaveUpdate \/ ArrowLeftDown \/ ArrowLeftUp

SpecWave == GameInit /\ [][WaveNext]_vars

-----------------------------------------------------------------------------
(* Score and droppings *)

C2_ScoresInOneUpdate ==
    /\ \A k \in DOMAIN droppings :
          droppings[k].type = "single" => scoreLog[droppings[k].id] = 0
    /\ \A i \in DOMAIN vehicles : vehicles[i].hits <= 1

\* one 'single' dropping has scored on two vehicles
C2_Witness ==
    \E id \in DOMAIN scoreLog :
        /\ scoreLog[id] = 2
        /\ \A k \in DOMAIN droppings : droppings[k].id # id
        /\ bird.powerUpLevel = 0

\* C2 as claimed: a 'single' dropping causes at most one scoring event
C2_AsClaimed ==
    \A id \in DOMAIN scoreLog :
        powerUpLevels(bird.powerUpLevel).poopType = "single" => scoreLog[id] <= 1

\* the droppings in flight: the one the bird holds and those of the Game
Live == Len(bird.activeDropping) + Len(droppings)

-----------------------------------------------------------------------------
(* Waves *)

\* what Game.update owns of the game, the player's position included
GameState ==
    <<score, wave, waveTimer, vehiclesPerWave, vehiclesSpawned,
      vehicles, foods, droppings, bird.x, bird.y>>

\* C8 as claimed: an update of a game whose bird is dead changes nothing
C8_AsClaimed ==
    [][(bird.isDead /\ ticks' # ticks) => GameState' = GameState]_vars

\* the wave timer has run out with vehicles of the wave still to spawn
TimedOut ==
    /\ ticks' # ticks
    /\ \E dt \in WaveDts : waveTimer + dt >= waveDuration
    /\ vehiclesSpawned < vehiclesPerWave

\* C9: an update in which the wave timer runs out before the wave's vehicles
\* are all spawned starts the next wave -- wave one higher, waveTimer 0, a
\* larger vehiclesPerWave, vehiclesSpawned counting from 0 again (0, or 1 when
\* the same update spawns a vehicle)
C9_TimerStartsNextWave ==
    [][TimedOut =>
          /\ wave' = wave + 1
          /\ waveTimer' = 0
          /\ vehiclesPerWave' > vehiclesPerWave
          /\ vehiclesSpawned' = nextId' - nextId]_vars

\* wave 3 has just begun with the bird alive, and fewer vehicles were ever
\* spawned than waves 1 and 2 ask for together
C9_Witness ==
    /\ wave = 3 /\ waveTimer = 0 /\ ~bird.isDead
    /\ nextId - 1 < initialVehiclesPerWave + 2 * initialVehiclesPerWave

\* the growth of vehiclesPerWave at the first wave transition
firstGrowth ==
    startNewWave(NewGame(OnlyCars)).vehiclesPerWave - initialVehiclesPerWave

\* C10 as claimed: every wave transition adds the same amount to
\* vehiclesPerWave
C10_AsClaimed ==
    [][wave' # wave => vehiclesPerWave' - vehiclesPerWave = firstGrowth]_vars

-----------------------------------------------------------------------------
(* Crashed vehicles *)

\* the vehicle of the next state that is vehicle i of this state, if any
Later(i) == {j \in DOMAIN vehicles' : vehicles'[j].id = vehicles[i].id}

\* C4: a vehicle that has crashed keeps its lane, x and y in every later
\* step until it is removed, its speed and targetSpeed are 0 and it does not
\* honk
C4_CrashedStaysPut ==
    [][\A i \in DOMAIN vehicles : \A j \in Later(i) :
          vehicles[i].hasCrashed =>
              /\ vehicles'[j].hasCrashed
              /\ vehicles'[j].lane = vehicles[i].lane
              /\ vehicles'[j].x = vehicles[i].x
              /\ vehicles'[j].y = vehicles[i].y
              /\ vehicles[i].speed = 0 /\ vehicles'[j].speed = 0
              /\ vehicles[i].targetSpeed = 0 /\ vehicles'[j].targetSpeed = 0
              /\ ~vehicles[i].isHonking /\ ~vehicles'[j].isHonking]_vars

\* a vehicle that crashed while it was changing lanes and whose fire has
\* burnt through an update since
C4_Witness ==
    \E i \in DOMAIN vehicles :
        /\ vehicles[i].hasCrashed /\ vehicles[i].fire > 0
        /\ vehicles[i].isChangingLane

\* C5: crash() on a vehicle that has already crashed changes nothing -- the
\* vehicle, its fire, the events the Game has received -- and no vehicle ever
\* has a second Fire or a second vehicleCrash event
C5_CrashIdempotent ==
    \A i \in DOMAIN vehicles :
        /\ vehicles[i].hasCrashed => crash(Traffic, i) = Traffic
        /\ vehicles[i].fires <= 1
        /\ vehicles[i].events <= 1

\* a vehicle that crashed some updates ago, for crash() to be called on again
C5_Witness ==
    \E i \in DOMAIN vehicles :
        vehicles[i].hasCrashed /\ vehicles[i].fire >= 2 * MinOf(TrafficDts)

\* R drives right, L drives left, both were spawned in the same lane and no
\* other vehicle has been spawned
OpposedPair(R, L) ==
    /\ nextId = 3
    /\ R.direction = "right" /\ L.direction = "left"
    /\ R.spawnLane = L.spawnLane
    /\ ~R.hitByPoop /\ ~L.hitByPoop

\* C6 (as the code has it): opposed vehicles crash only together -- the
\* crashes of one update come in pairs -- and a vehicle makes the transition
\* to crashed at most once; nothing makes them crash
C6_CrashTogetherOnce ==
    [][/\ (crashEvents' - crashEvents) % 2 = 0
       /\ \A j \in DOMAIN vehicles' :
             vehicles'[j].crashes = IF vehicles'[j].hasCrashed THEN 1 ELSE 0]_vars

\* the two opposed vehicles of one lane have driven past each other and
\* neither has crashed
C6_Witness ==
    \E i, j \in DOMAIN vehicles :
        /\ OpposedPair(vehicles[i], vehicles[j])
        /\ vehicles[i].x > vehicles[j].x
        /\ ~vehicles[i].hasCrashed /\ ~vehicles[j].hasCrashed

\* C6 as claimed: two opposed vehicles of one lane, alone on the road, end up
\* crashed -- they are never found past each other with one of them intact
C6_AsClaimed ==
    \A i, j \in DOMAIN vehicles :
        (OpposedPair(vehicles[i], vehicles[j]) /\ vehicles[i].x > vehicles[j].x)
            => (vehicles[i].hasCrashed /\ vehicles[j].hasCrashed)

\* C7 (as the code has it): every collision dispatches two vehicleCrash
\* events, one from each of the two vehicles
C7_TwoEventsPerCollision == crashEvents = 2 * collisions

\* a collision has happened
C7_Witness == collisions >= 1 /\ \E i \in DOMAIN vehicles : vehicles[i].events = 1

\* C7 as claimed: one crash notification per collision
C7_AsClaimed == crashEvents = collisions

-----------------------------------------------------------------------------
(* Wave number *)

\* the wave's quota was reached and the road was empty at the end of the
\* update: at most one vehicle is spawned per update, the transition resets
\* vehiclesSpawned and waveTimer, and no vehicle is left
QuotaDone ==
    /\ ticks' # ticks
    /\ ~bird.isDead
    /\ vehiclesSpawned + 1 >= vehiclesPerWave
    /\ vehicles' = <<>>
    /\ vehiclesSpawned' = 0 /\ waveTimer' = 0

\* the wave timer runs out in this update
TimerDone ==
    /\ ticks' # ticks
    /\ \E dt \in WaveDts : waveTimer + dt >= waveDuration

\* C11: in every step the wave number stays or goes up by exactly 1; it goes
\* up only in an update in which the wave timer ran out or in which the
\* quota was reached with no vehicle left
C11_WaveStepsByOne ==
    [][/\ wave' \in {wave, wave + 1}
       /\ wave' # wave => TimerDone \/ QuotaDone]_vars

\* wave 2 was started by the quota test, before the timer of wave 1 ran out
C11_Witness ==
    /\ wave = 2 /\ waveTimer = 0 /\ vehicles = <<>>
    /\ ticks * MinOf(WaveDts) < waveDuration
    /\ nextId - 1 = initialVehiclesPerWave

-----------------------------------------------------------------------------
(* Emergency specification: Game.update in steps of 1 s with cars in both   *)
(* directions of one lane, so that they can collide, and either an          *)
(* emergency sprite for the direction 'right' or no emergency sprite.       *)

MaxEmergencyTicks == 40 \* Game.update calls in an emergency run

EmergencyRight ==
    [a \in Types \X Directions |->
        a[1] = "car" \/ a = <<"emergency", "right">>]

EmergencyEnv ==
    [directions    |-> Directions,
     lanes         |-> {2},
     speeds        |-> {150},
     honks         |-> {FALSE},
     honkDurations |-> {20},
     aspects       |-> {200},
     pcts          |-> {25},
     honkOnSlow    |-> {FALSE},
     cooldowns     |-> {30},
     foods         |-> {<<6000, 1000, 1>>}]

\* deltaTime of the emergency updates, in ds
EmergencyDts == {10}

\* the sprites the asset loader may have delivered
EmergencySprites == {EmergencyRight, OnlyCars}

EmergencyInit == \E sp \in EmergencySprites : Starts(NewGame(sp))

EmergencyUpdate ==
    /\ ticks < MaxEmergencyTicks
    /\ \E dt \in EmergencyDts :
          \E g \in update(G, dt, EmergencyEnv) : Becomes(g)

EmergencyNext == EmergencyUpdate

SpecEmergency == EmergencyInit /\ [][EmergencyNext]_vars

\* the vehicles of the next state that this step created
Created == {j \in DOMAIN vehicles' : vehicles'[j].id >= nextId}

\* spawnVehicle is called in emergency mode with budget left
InBudget == emergencyMode /\ emergencyVehiclesRemaining > 0

\* ... and an emergency sprite exists
Forced == InBudget /\ emergencyDirections(sprites) # {}

\* C12: a crash notification sets the budget to 10; from then on, while no
\* further crash is notified and an emergency sprite exists, every spawn is
\* of type 'emergency' and takes
\* one from the budget, emergencyMode is true exactly while budget is left
\* (so it is false from the 10th spawn on), and a spawn made without budget
\* is an ordinary one that leaves the budget alone
C12_TenEmergencySpawns ==
    [][/\ crashEvents' # crashEvents =>
             emergencyMode' /\ emergencyVehiclesRemaining' = emergencyBudget
       /\ crashEvents' = crashEvents =>
             /\ emergencyVehiclesRemaining' =
                   IF InBudget THEN emergencyVehiclesRemaining - Cardinality(Created)
                   ELSE emergencyVehiclesRemaining
             /\ emergencyMode' = (emergencyVehiclesRemaining' > 0)
       /\ Cardinality(Created) = nextId' - nextId
       /\ \A j \in Created :
             IF Forced THEN vehicles'[j].type = "emergency"
             ELSE \E v \in newVehicles(G, EmergencyEnv) :
                     /\ v.type = vehicles'[j].type
                     /\ v.direction = vehicles'[j].direction
                     /\ v.width = vehicles'[j].width]_vars

\* after the one collision of the run the budget of 10 has been used up, the
\* vehicle spawned last but one is an emergency vehicle and the newest one
\* is an ordinary car
C12_Witness ==
    /\ collisions = 1 /\ ~emergencyMode /\ emergencyVehiclesRemaining = 0
    /\ emergencyDirections(sprites) # {}
    /\ \E i, j \in DOMAIN vehicles :
          /\ vehicles[i].id = nextId - 1
          /\ vehicles[i].type = "car"
          /\ vehicles[j].id = nextId - 2
          /\ vehicles[j].type = "emergency"

\* the update of this step calls spawnVehicle: after the wave timer was
\* handled the spawn timer is due, the road is not full and the wave's quota
\* is not reached
SpawnDue ==
    /\ ticks' # ticks
    /\ \E dt \in EmergencyDts :
          LET g1 == waveStep(G, dt)
          IN  /\ ~g1.bird.isDead
              /\ g1.vehicleSpawnTimer + dt >= getVehicleSpawnInterval(g1.wave)
              /\ Len(g1.vehicles) < maxVehicles
              /\ g1.vehiclesSpawned < g1.vehiclesPerWave

\* C13: with budget left and no emergency sprite in either direction, a
\* spawn that is due still adds exactly one vehicle, an ordinary one as the
\* Vehicle constructor draws it, and still takes one from the budget;
\* emergency mode ends when the budget reaches 0
C13_FallbackSpawn ==
    [][(SpawnDue /\ InBudget /\ emergencyDirections(sprites) = {}) =>
          /\ Cardinality(Created) = 1
          /\ vehiclesSpawned' >= 1
          /\ \A j \in Created :
                /\ vehicles'[j].type # "emergency"
                /\ \E v \in newVehicles(G, EmergencyEnv) :
                      /\ v.type = vehicles'[j].type
                      /\ v.direction = vehicles'[j].direction
                      /\ v.width = vehicles'[j].width
                      /\ v.lane = vehicles'[j].spawnLane
          /\ crashEvents' = crashEvents =>
                /\ emergencyVehiclesRemaining' = emergencyVehiclesRemaining - 1
                /\ emergencyMode' = (emergencyVehiclesRemaining' > 0)]_vars

\* without any emergency sprite, the budget of the run's one collision has
\* been used up by ten ordinary spawns, the last of them still on the road
C13_Witness ==
    /\ emergencyDirections(sprites) = {}
    /\ collisions = 1 /\ ~emergencyMode /\ emergencyVehiclesRemaining = 0
    /\ \E i \in DOMAIN vehicles :
          vehicles[i].id = nextId - 1 /\ vehicles[i].type = "car"
    /\ nextId - 1 >= emergencyBudget + 2

-----------------------------------------------------------------------------
(* Construction specification: spawnVehicle called on a new game, for       *)
(* several outcomes of the asset loading.                                   *)

MaxConstructed == 2 \* vehicles constructed in a construction run

NoSprites == [a \in Types \X Directions |-> FALSE]

LeftTrucks == [a \in Types \X Directions |-> a = <<"truck", "left">>]

\* what the asset loader may have delivered
ConstructSprites == {NoSprites, LeftTrucks, OnlyCars, AllSprites}

ConstructEnv ==
    [directions    |-> Directions,
     lanes         |-> {1, 2, 3},
     speeds        |-> {50, 150},
     honks         |-> {FALSE},
     honkDurations |-> {10},
     aspects       |-> {200},
     pcts          |-> {25},
     honkOnSlow    |-> {FALSE},
     cooldowns     |-> {30},
     foods         |-> {<<6000, 1000, 1>>}]

ConstructInit == \E sp \in ConstructSprites : Starts(NewGame(sp))

\* game.spawnVehicle(): new Vehicle(...) and the push
Construct ==
    /\ nextId <= MaxConstructed
    /\ \E g \in spawnVehicle(G, ConstructEnv) : Becomes(g)

ConstructNext == Construct

SpecConstruct == ConstructInit /\ [][ConstructNext]_vars

\* no vehicle type has a sprite in either direction
SpritesMissing == \A a \in Types \X Directions : ~sprites[a]

\* C14: without any sprite the selection loop gives up after 10 attempts,
\* whichever direction was drawn first, and the vehicle constructed is a car
\* driving right, with the default width and the standard height, both
\* positive, in one of the lanes 1..3, at a positive speed
C14_DefaultVehicle ==
    SpritesMissing =>
       /\ \A d \in Directions :
             selectVehicle(sprites, d, 0) =
                {[type |-> "car", direction |-> "right", found |-> FALSE,
                  attempts |-> 10]}
       /\ \A i \in DOMAIN vehicles :
             /\ vehicles[i].type = "car"
             /\ vehicles[i].direction = "right"
             /\ vehicles[i].width = setDefaultWidth("car")
             /\ vehicles[i].width > 0 /\ vehicles[i].height > 0
             /\ vehicles[i].lane \in 1..3
             /\ vehicles[i].y = LaneY(vehicles[i].lane)
             /\ vehicles[i].speed > 0
             /\ vehicles[i].originalSpeed = vehicles[i].speed
             /\ vehicles[i].x = -(vehicles[i].width \div 2)

\* two vehicles have been constructed without any sprite
C14_Witness == SpritesMissing /\ Len(vehicles) = MaxConstructed

-----------------------------------------------------------------------------
(* Feeding specification: Game.update every 0.1 s with the bird resting     *)
(* where the food appears, so that it eats every food, of 1, 2 or 3 belly   *)
(* points, as soon as it is spawned.                                        *)

MaxFeedingTicks == 1000 \* Game.update calls in a feeding run

FeedingEnv ==
    [directions    |-> {"right"},
     lanes         |-> {3},
     speeds        |-> {150},
     honks         |-> {FALSE},
     honkDurations |-> {20},
     aspects       |-> {200},
     pcts          |-> {25},
     honkOnSlow    |-> {FALSE},
     cooldowns     |-> {30},
     foods         |-> {<<4240, 2240, points>> : points \in {1, 2, 3}}]

FeedingUpdate ==
    /\ ticks < MaxFeedingTicks
    /\ \E dt \in GameDts : \E g \in update(G, dt, FeedingEnv) : Becomes(g)

FeedingNext == FeedingUpdate

SpecFeeding == GameInit /\ [][FeedingNext]_vars

\* C15: the power level never goes down, in no step
C15_LevelNeverDrops ==
    [][bird'.powerUpLevel >= bird.powerUpLevel]_vars

\* the bird has gone on eating and updating at the highest level
C15_Witness ==
    /\ bird.powerUpLevel = maxPowerUpLevel
    /\ bird.bellyPoints >= 5 * (maxPowerUpLevel + 1)

\* C16: the power level is floor(bellyPoints / 5), at most 5, and the stats
\* of the bird's droppings are the table row of that level; with 4 belly
\* points the level is 0 and with 5 it is 1
C16_LevelFromBelly ==
    /\ bird.powerUpLevel = Min2(bird.bellyPoints \div 5, maxPowerUpLevel)
    /\ \A stat \in DOMAIN powerUpLevels(bird.powerUpLevel) :
          bird[stat] = powerUpLevels(bird.powerUpLevel)[stat]
    /\ bird.bellyPoints = 4 => bird.powerUpLevel = 0
    /\ bird.bellyPoints = 5 => bird.powerUpLevel = 1 /\ bird.poopCooldown = 8

\* the fifth food was eaten, and the five foods had 1 belly point each
C16_Witness ==
    /\ bird.bellyPoints = 5 /\ bird.powerUpLevel = 1
    /\ ticks = 5 * foodSpawnInterval /\ foods = <<>>

-----------------------------------------------------------------------------
(* Dropping specification: Game.update every 0.1 s, the bird eating a food  *)
(* of 3 belly points every 10 s, and the space key pressed at any time.     *)

MaxDroppingTicks == 920 \* Game.update calls in a dropping run
MaxFedDrops == 2 \* droppings fired in a dropping run

DroppingEnv ==
    [directions    |-> {"right"},
     lanes         |-> {3},
     speeds        |-> {150},
     honks         |-> {FALSE},
     honkDurations |-> {20},
     aspects       |-> {200},
     pcts          |-> {25},
     honkOnSlow    |-> {FALSE},
     cooldowns     |-> {30},
     foods         |-> {<<4240, 2240, 3>>}]

DroppingUpdate ==
    /\ ticks < MaxDroppingTicks
    /\ \E dt \in GameDts : \E g \in update(G, dt, DroppingEnv) : Becomes(g)

\* handleKeyDown(' '): game.bird.drop(), which may return null
dropKey(g) == IF dropAllowed(g.bird) THEN dropped(g) ELSE g

FedDropKey ==
    /\ Len(scoreLog) < MaxFedDrops
    /\ Becomes(dropKey(G))

DroppingNext == DroppingUpdate \/ FedDropKey

SpecDropping == GameInit /\ [][DroppingNext]_vars

\* drop() has just succeeded in this step
Dropped == ticks' = ticks /\ bird'.activeDropping # bird.activeDropping

\* C17: while a dropping is held or the cooldown timer is positive the space
\* key changes nothing; a drop succeeds only with no dropping held and the
\* timer at 0, it sets the timer to the poopCooldown of the bird's power
\* level, and at least the cooldown started by the drop before it has
\* passed in accumulated deltaTime
C17_DropGating ==
    [][/\ (bird.activeDropping # <<>> \/ bird.droppingCooldownTimer > 0)
             => dropKey(G) = G /\ ~Dropped
       /\ Dropped =>
             /\ bird.activeDropping = <<>> /\ bird.droppingCooldownTimer = 0
             /\ Len(bird'.activeDropping) = 1
             /\ bird'.droppingCooldownTimer =
                   powerUpLevels(bird.powerUpLevel).poopCooldown
             /\ bird.sinceDrop >= bird.lastCooldown]_vars

\* the second drop of a run has just succeeded, at power level 2
C17_Witness ==
    /\ Len(scoreLog) = 2 /\ bird.powerUpLevel = 2
    /\ bird.activeDropping # <<>> /\ bird.sinceDrop = 0
    /\ bird.droppingCooldownTimer = powerUpLevels(2).poopCooldown

-----------------------------------------------------------------------------
(* Honk specification: Game.update in steps of 1 s with cars and emergency  *)
(* vehicles, honking or not, in the lane under the bird, and the left arrow *)
(* key, which takes the bird to where it hears every vehicle once.          *)

MaxHonkTicks == 14 \* Game.update calls in a honk run

HonkUpdate ==
    /\ ticks < MaxHonkTicks
    /\ \E dt \in WaveDts : \E g \in update(G, dt, WaveEnv) : Becomes(g)

HonkArrowLeftDown ==
    /\ ~bird.movingLeft
    /\ Becomes([G EXCEPT !.bird.movingLeft = TRUE])

HonkArrowLeftUp ==
    /\ bird.movingLeft
    /\ Becomes([G EXCEPT !.bird.movingLeft = FALSE])

HonkInit == Starts(NewGame(EmergencyRight))

HonkNext == HonkUpdate \/ HonkArrowLeftDown \/ HonkArrowLeftUp

SpecHonk == HonkInit /\ [][HonkNext]_vars

\* the vehicles the bird heard in the update of this step; the wave number
\* at that point of the update is the one the timer test left
Heard ==
    LET w == IF TimerDone THEN wave + 1 ELSE wave
    IN  {j \in DOMAIN vehicles' : heardBy(vehicles'[j], bird', w)}

\* the calls of experienceHonk in the update of this step
HonkCalls(j) == IF vehicles'[j].type = "emergency" THEN 2 ELSE 1

RECURSIVE SumCalls(_)
SumCalls(S) ==
    IF S = {} THEN 0
    ELSE LET j == CHOOSE k \in S : TRUE
         IN  HonkCalls(j) + SumCalls(S \ {j})

\* an update of a game whose bird was alive after the wave timer was handled
AliveUpdate == ticks' # ticks /\ ~bird.isDead

\* C18: health is 100 in a new game and always within 0..100; an update
\* takes honkDamage from it for every call of experienceHonk, one call for
\* an ordinary vehicle heard and two for an emergency vehicle, and stops at 0
C18_HealthBounded ==
    [][/\ ticks = 0 => bird.health = 100
       /\ bird.health \in 0..100 /\ bird'.health \in 0..100
       /\ AliveUpdate =>
             bird'.health = Max2(0, bird.health - honkDamage * SumCalls(Heard))
       /\ ~AliveUpdate => bird'.health = bird.health]_vars

\* an emergency vehicle has just been heard, its two calls have been taken
\* from the bird's health, and what is left is one honkDamage
C18_Witness ==
    /\ bird.health = honkDamage /\ ~bird.isDead
    /\ \E j \in DOMAIN vehicles :
          /\ vehicles[j].type = "emergency"
          /\ heardBy(vehicles[j], bird, wave)

\* C18 as claimed: when one vehicle is heard, an emergency vehicle takes
\* exactly twice what an ordinary vehicle would take from the same health
C18_AsClaimed ==
    [][(AliveUpdate /\ Cardinality(Heard) = 1) =>
          \A j \in Heard :
             bird.health - bird'.health =
                HonkCalls(j) * (bird.health - experienceHonk(bird).health)]_vars

-----------------------------------------------------------------------------
(* Scoring specification: the Vehicle class driven as in the traffic        *)
(* specification, with cars and emergency vehicles driving right in one     *)
(* lane, the later ones slowing down for the earlier ones and honking at    *)
(* them, and handleHit called on any vehicle that was not hit before.       *)

MaxScored == 2 \* vehicles created in a scoring run

ScoringEnv ==
    [directions    |-> {"right"},
     lanes         |-> {3},
     speeds        |-> {100},
     honks         |-> {TRUE, FALSE},
     honkDurations |-> {20},
     aspects       |-> {200},
     pcts          |-> {25},
     honkOnSlow    |-> {TRUE, FALSE},
     cooldowns     |-> {30},
     foods         |-> {<<6000, 1000, 1>>}]

\* game.spawnVehicle()
ScoringSpawn ==
    /\ nextId <= MaxScored
    /\ \E g \in spawnVehicle(G, ScoringEnv) : Becomes(g)

\* the vehicles filter of Game.update
ScoringVehiclesUpdate ==
    \E dt \in TrafficDts :
        \E g \in vehiclesStep(G, dt, ScoringEnv) : Becomes(g)

\* vehicle.handleHit(powerLevel) on the vehicle at index i
ScoringHandleHit ==
    \E i \in DOMAIN vehicles, level \in HitLevels :
        /\ ~vehicles[i].hitByPoop
        /\ Becomes([G EXCEPT !.vehicles[i] = handleHit(@, level)])

ScoringNext == ScoringSpawn \/ ScoringVehiclesUpdate \/ ScoringHandleHit

SpecScoring == HonkInit /\ [][ScoringNext]_vars

\* the vehicles on the road that were hit
HitVehicles == {i \in DOMAIN vehicles : vehicles[i].hits > 0}

\* lastHonkTime was less than the grace period old when the vehicle was hit
RecentAtHit(v) == v.ageAtHit < honkGracePeriod

-----------------------------------------------------------------------------
(* Road specification: the Vehicle class driven as in the traffic           *)
(* specification, silent vehicles driving both ways in one lane, with the   *)
(* vehicles filter of Game.update run again and again, as the game loop     *)
(* does every frame while the player is alive.                              *)

MaxOnRoad == 2 \* vehicles created in a road run

RoadEnv ==
    [directions    |-> Directions,
     lanes         |-> {2},
     speeds        |-> {150},
     honks         |-> {FALSE},
     honkDurations |-> {20},
     aspects       |-> {200},
     pcts          |-> {25},
     honkOnSlow    |-> {FALSE},
     cooldowns     |-> {30},
     foods         |-> {<<6000, 1000, 1>>}]

\* power-up levels handleHit is called with: a hit lasts 0.5 s
RoadHitLevels == {4}

\* game.spawnVehicle()
RoadSpawn ==
    /\ nextId <= MaxOnRoad
    /\ \E g \in spawnVehicle(G, RoadEnv) : Becomes(g)

\* the vehicles filter of Game.update, which runs while the bird is alive
RoadUpdate ==
    /\ ~bird.isDead
    /\ \E dt \in TrafficDts :
          \E g \in vehiclesStep(G, dt, RoadEnv) : Becomes(g)

\* vehicle.handleHit(powerLevel) on the vehicle at index i
RoadHandleHit ==
    \E i \in DOMAIN vehicles, level \in RoadHitLevels :
        /\ ~vehicles[i].hitByPoop
        /\ Becomes([G EXCEPT !.vehicles[i] = handleHit(@, level)])

RoadNext == RoadSpawn \/ RoadUpdate \/ RoadHandleHit

SpecRoad == TrafficInit /\ [][RoadNext]_vars /\ WF_vars(RoadUpdate)

\* the vehicle created k-th is in the vehicle list
OnRoad(k) == \E i \in DOMAIN vehicles : vehicles[i].id = k

\* C20: with the player alive and updates with deltaTime > 0 going on, every
\* vehicle in the vehicle list is eventually removed from it
C20_EveryVehicleLeaves ==
    \A k \in 1..MaxOnRoad : OnRoad(k) ~> ~OnRoad(k)

\* the player is alive, one vehicle was removed and the other one is still
\* driving slowed down
C20_Witness ==
    /\ ~bird.isDead
    /\ nextId = MaxOnRoad + 1
    /\ Len(vehicles) = 1
    /\ vehicles[1].isSlowingDown /\ ~vehicles[1].hasCrashed

-----------------------------------------------------------------------------
(* Speed specification: the Vehicle class driven as in the traffic          *)
(* specification, with frames of 0 s and 1 s and the slowest and     *)
(* the fastest slow-down the draw of slowDown can give.                     *)

MaxRamped == 2 \* vehicles created in a speed run

SpeedEnv ==
    [directions    |-> Directions,
     lanes         |-> {1, 3},
     speeds        |-> {140},
     honks         |-> {FALSE},
     honkDurations |-> {20},
     aspects       |-> {200},
     pcts          |-> {5, 29},
     honkOnSlow    |-> {FALSE},
     cooldowns     |-> {30},
     foods         |-> {<<6000, 1000, 1>>}]

\* deltaTime of the speed updates, in ds
SpeedDts == {0, 10}

\* game.spawnVehicle()
SpeedSpawn ==
    /\ nextId <= MaxRamped
    /\ \E g \in spawnVehicle(G, SpeedEnv) : Becomes(g)

\* the vehicles filter of Game.update
SpeedUpdate ==
    \E dt \in SpeedDts :
        \E g \in vehiclesStep(G, dt, SpeedEnv) : Becomes(g)

SpeedNext == SpeedSpawn \/ SpeedUpdate

SpecSpeed == TrafficInit /\ [][SpeedNext]_vars

\* the vehicle with identity k in the vehicle array vs
VehicleOf(vs, k) == vs[CHOOSE i \in DOMAIN vs : vs[i].id = k]

Ids(vs) == {vs[i].id : i \in DOMAIN vs}

\* +1 for a vehicle driving right, -1 for one driving left
Heading(v) == IF v.direction = "right" THEN 1 ELSE -1

\* targetSpeed is originalSpeed or at least 5% and less than 30% of it
TargetInRange(v) ==
    \/ v.targetSpeed = v.originalSpeed
    \/ /\ Sign(v.targetSpeed) = Sign(v.originalSpeed)
       /\ 100 * Abs(v.targetSpeed) >= 5 * Abs(v.originalSpeed)
       /\ 100 * Abs(v.targetSpeed) < 30 * Abs(v.originalSpeed)

SpeedInRange(v) ==
    /\ Sign(v.speed) = Heading(v)
    /\ 0 < Abs(v.speed) /\ Abs(v.speed) <= Abs(v.originalSpeed)

\* C21: after every step every vehicle that has not crashed has a speed of
\* the sign of its direction with 0 < |speed| <= |originalSpeed| and a
\* targetSpeed that is originalSpeed or 5% to below 30% of it, and an update
\* leaves the speed between its old value and the old targetSpeed
C21_SpeedInRange ==
    [][/\ \A i \in DOMAIN vehicles' :
             ~vehicles'[i].hasCrashed =>
                SpeedInRange(vehicles'[i]) /\ TargetInRange(vehicles'[i])
       /\ \A k \in Ids(vehicles) \cap Ids(vehicles') :
             LET v == VehicleOf(vehicles, k)
                 w == VehicleOf(vehicles', k)
             IN  ~w.hasCrashed =>
                    /\ Min2(v.speed, v.targetSpeed) <= w.speed
                    /\ w.speed <= Max2(v.speed, v.targetSpeed)]_vars

\* a vehicle driving left is on its way down to 5% of its original speed
C21_Witness ==
    \E i \in DOMAIN vehicles :
       /\ ~vehicles[i].hasCrashed /\ vehicles[i].isSlowingDown
       /\ vehicles[i].originalSpeed = -140
       /\ vehicles[i].targetSpeed = -7
       /\ vehicles[i].speed = -40

-----------------------------------------------------------------------------
(* Crashed vehicles and lane changes *)

\* the lane-change state of a vehicle
LaneChange(v) ==
    <<v.isChangingLane, v.lane, v.targetLane, v.laneChangeProgress,
      v.y, v.originalY, v.targetY>>

\* C22: a crashed vehicle stays crashed, silent and in the lane-change
\* state it crashed in: it neither starts nor goes on with a lane change
C22_CrashedNeverChangesLane ==
    [][\A k \in Ids(vehicles) \cap Ids(vehicles') :
          LET v == VehicleOf(vehicles, k)
              w == VehicleOf(vehicles', k)
          IN  v.hasCrashed =>
                 /\ w.hasCrashed /\ ~w.isHonking
                 /\ LaneChange(w) = LaneChange(v)]_vars

\* a vehicle that crashed in the middle of a lane change has been updated
\* since and is still in the middle of it
C22_Witness ==
    \E i \in DOMAIN vehicles :
       /\ vehicles[i].hasCrashed /\ vehicles[i].isChangingLane
       /\ vehicles[i].fire > 0
       /\ vehicles[i].lane # vehicles[i].targetLane

\* C22 as claimed: no vehicle is crashed and in a lane change at once
C22_AsClaimed ==
    \A i \in DOMAIN vehicles :
       ~(vehicles[i].hasCrashed /\ vehicles[i].isChangingLane)

-----------------------------------------------------------------------------
(* Lane specification: silent vehicles driving both ways in one lane and    *)
(* changing lanes to avoid each other, with frames of 0 s and 0.4 s.        *)

\* deltaTime of the lane updates, in ds
LaneDts == {0, 4}

\* the vehicles filter of Game.update
LaneUpdate ==
    \E dt \in LaneDts :
        \E g \in vehiclesStep(G, dt, RoadEnv) : Becomes(g)

LaneNext == RoadSpawn \/ LaneUpdate

SpecLane == TrafficInit /\ [][LaneNext]_vars

\* y lies between a and b
Between(y, a, b) == Min2(a, b) <= y /\ y <= Max2(a, b)

\* C23: a vehicle that is changing lanes keeps targetLane, originalY and
\* targetY; while the change goes on its lane stays, laneChangeProgress
\* stays below the duration and does not shrink and y stays between
\* originalY and targetY; the change ends only when the accumulated
\* deltaTime reaches laneChangeSpeed, with lane = targetLane and y = targetY
C23_OneLaneChangeAtATime ==
    [][\A k \in Ids(vehicles) \cap Ids(vehicles') :
          LET v == VehicleOf(vehicles, k)
              w == VehicleOf(vehicles', k)
          IN  v.isChangingLane =>
                 /\ w.targetLane = v.targetLane
                 /\ w.originalY = v.originalY /\ w.targetY = v.targetY
                 /\ w.isChangingLane =>
                       /\ w.lane = v.lane
                       /\ v.laneChangeProgress <= w.laneChangeProgress
                       /\ w.laneChangeProgress < laneChangeSpeed
                       /\ Between(w.y, w.originalY, w.targetY)
                 /\ ~w.isChangingLane =>
                       /\ \E dt \in LaneDts :
                             v.laneChangeProgress + dt >= laneChangeSpeed
                       /\ w.lane = v.targetLane /\ w.y = v.targetY
                       /\ w.laneChangeProgress = 0]_vars

\* a running vehicle is 0.8 s into its lane change, between the two lanes
C23_Witness ==
    \E i \in DOMAIN vehicles :
       /\ vehicles[i].isChangingLane /\ ~vehicles[i].hasCrashed
       /\ vehicles[i].laneChangeProgress = 8
       /\ vehicles[i].y # vehicles[i].originalY
       /\ vehicles[i].y # vehicles[i].targetY

-----------------------------------------------------------------------------
(* Lanes *)

\* C24: every vehicle is in a lane 0..5 and was created in a lane 1..3;
\* a lane change goes to the lane next to the vehicle's own, and to lane 0
\* or 5 only when isEmergencySituation held as the change was started
C24_LanesInRange ==
    \A i \in DOMAIN vehicles :
       LET v == vehicles[i]
       IN  /\ v.lane \in 0..(totalLanes - 1)
           /\ v.spawnLane \in 1..3
           /\ v.isChangingLane =>
                 /\ Abs(v.targetLane - v.lane) = 1
                 /\ v.targetLane \in {0, totalLanes - 1} => v.emergencyAtChange
           /\ ~v.isChangingLane /\ v.lane \in {0, totalLanes - 1} =>
                 v.emergencyAtChange

\* a vehicle created in lane 1 has moved over to the emergency lane 0
C24_Witness ==
    \E i \in DOMAIN vehicles :
       /\ vehicles[i].spawnLane = 1 /\ vehicles[i].lane = 0
       /\ ~vehicles[i].isChangingLane /\ ~vehicles[i].hasCrashed

-----------------------------------------------------------------------------
(* Passing specification: silent vehicles created in lanes 1 and 3 and      *)
(* driving both ways, which slow down to 29% and change lanes for each      *)
(* other, some of them into the lane of the next one.                       *)

MaxPassing == 3 \* vehicles created in a passing run

PassingEnv ==
    [directions    |-> Directions,
     lanes         |-> {1, 3},
     speeds        |-> {140},
     honks         |-> {FALSE},
     honkDurations |-> {20},
     aspects       |-> {200},
     pcts          |-> {29},
     honkOnSlow    |-> {FALSE},
     cooldowns     |-> {30},
     foods         |-> {<<6000, 1000, 1>>}]

\* game.spawnVehicle()
PassingSpawn ==
    /\ nextId <= MaxPassing
    /\ \E g \in spawnVehicle(G, PassingEnv) : Becomes(g)

\* the vehicles filter of Game.update
PassingUpdate ==
    \E dt \in TrafficDts :
        \E g \in vehiclesStep(G, dt, PassingEnv) : Becomes(g)

PassingNext == PassingSpawn \/ PassingUpdate

SpecPassing == TrafficInit /\ [][PassingNext]_vars

\* C25: a vehicle crashes only into an overlapping vehicle that drives the
\* other way, and only when at least one of the two is not below 30% of its
\* original speed; both vehicles of the pair crash
C25_CrashNeedsOpposedFast ==
    \A i \in DOMAIN vehicles :
       LET v == vehicles[i]
       IN  /\ v.hasCrashed <=> v.crashInfo # <<>>
           /\ v.hasCrashed =>
                 /\ v.crashInfo[1].overlap
                 /\ v.crashInfo[1].otherDirection # v.direction
                 /\ ~(v.crashInfo[1].slow /\ v.crashInfo[1].otherSlow)
                 /\ \A j \in DOMAIN vehicles :
                       vehicles[j].id = v.crashInfo[1].other =>
                          /\ vehicles[j].hasCrashed
                          /\ vehicles[j].crashInfo[1].other = v.id

\* two slow vehicles that drive opposite ways overlap and have not crashed
C25_Witness ==
    \E i, j \in DOMAIN vehicles :
       /\ vehicles[i].direction # vehicles[j].direction
       /\ boxesOverlap(vehicles[i], vehicles[j])
       /\ isSlow(vehicles[i]) /\ isSlow(vehicles[j])
       /\ ~vehicles[i].hasCrashed /\ ~vehicles[j].hasCrashed


-----------------------------------------------------------------------------
(* Loop specification: main.js -- the key that starts the game, the P key,  *)
(* the space key and the frames of requestAnimationFrame around Game.update.*)
(* Timestamps are in ds, like deltaTime.                                    *)

MaxClock == 6          \* the latest timestamp of a loop run, in ds
MaxPendingFrames == 3  \* callbacks requestAnimationFrame holds in a loop run

\* the cap of deltaTime in gameLoop: 0.1 s
maxDeltaTime == 1

\* time between two rendered frames, and between a frame and a key press
FrameGaps == {1, 2}
KeyGaps == {0, 1}

\* (variant: the update does not look at gamePaused)
gameLoopWhilePaused(g, l, timestamp, env) ==
    LET deltaTime == Min2(timestamp - l.lastTimestamp, maxDeltaTime)
        l1 == [l EXCEPT !.lastTimestamp = timestamp]
    IN  {<<g2, [l1 EXCEPT !.lastDelta = deltaTime,
                          !.updatesInFrame = @ + 1,
                          !.pendingFrames =
                              IF l.gamePaused THEN @ ELSE @ + 1]>> :
            g2 \in update(g, deltaTime, env)}

\* gameLoop(timestamp) on the game g and the globals l: the pairs <<g, l>>
\* it can end in
gameLoop(g, l, timestamp, env) ==
    LET deltaTime == Min2(timestamp - l.lastTimestamp, maxDeltaTime)
        l1 == [l EXCEPT !.lastTimestamp = timestamp]
    IN  IF ~l.gamePaused
        THEN {<<g2, [l1 EXCEPT !.lastDelta = deltaTime,
                               !.updatesInFrame = @ + 1,
                               !.pendingFrames = @ + 1]>> :
                 g2 \in update(g, deltaTime, env)}
        ELSE {<<g, l1>>}

\* togglePause() at the time l.now
togglePause(g, l, env) ==
    LET l1 == [l EXCEPT !.gamePaused = ~@]
    IN  IF l1.gamePaused THEN {<<g, l1>>}
        ELSE gameLoop(g, [l1 EXCEPT !.lastTimestamp = l.now], l.now, env)

\* the browser runs the n callbacks it held when the frame began, all with
\* the timestamp of the frame
RECURSIVE runCallbacks(_, _, _, _)
runCallbacks(S, n, timestamp, env) ==
    IF n = 0 THEN S
    ELSE runCallbacks(Bind(S, LAMBDA s : gameLoop(s[1], s[2], timestamp, env)),
                      n - 1, timestamp, env)

\* the first key press: handleKeyDown, then startGame, which removes itself
StartKey ==
    /\ ~started
    /\ \E d \in KeyGaps, key \in {"p", "Enter"} :
          LET l0 == [Loop EXCEPT !.now = @ + d, !.started = TRUE]
              S  == IF key = "p" THEN togglePause(G, l0, GameEnv)
                    ELSE {<<G, l0>>}
          IN  \E s \in S :
                 \E r \in gameLoop(s[1], [s[2] EXCEPT !.lastTimestamp = l0.now],
                                   l0.now, GameEnv) :
                    /\ GameBecomes(r[1])
                    /\ LoopBecomes([r[2] EXCEPT !.updatesInFrame = 0])

\* handleKeyDown('p'): togglePause(); its update is not one of a frame
PauseKey ==
    /\ started
    /\ pendingFrames < MaxPendingFrames
    /\ \E d \in KeyGaps :
          /\ now + d <= MaxClock
          /\ \E r \in togglePause(G, [Loop EXCEPT !.now = @ + d], GameEnv) :
                /\ GameBecomes(r[1])
                /\ LoopBecomes([r[2] EXCEPT
                                   !.updatesInFrame = updatesInFrame])

\* handleKeyDown(' '): game.bird.drop(), paused or not
LoopDropKey ==
    /\ started
    /\ dropAllowed(bird)
    /\ GameBecomes(dropped(G)) /\ LoopBecomes(Loop)

\* a rendered frame: the callbacks requested before it run
Frame ==
    /\ started
    /\ \E gap \in FrameGaps :
          /\ now + gap <= MaxClock
          /\ LET l0 == [Loop EXCEPT !.now = @ + gap, !.pendingFrames = 0,
                                    !.updatesInFrame = 0]
             IN  \E r \in runCallbacks({<<G, l0>>}, pendingFrames,
                                       l0.now, GameEnv) :
                    GameBecomes(r[1]) /\ LoopBecomes(r[2])

LoopNext == StartKey \/ PauseKey \/ LoopDropKey \/ Frame

SpecLoop == GameInit /\ [][LoopNext]_vars

\* C26 (as claimed): at any moment at most one gameLoop callback is pending
\* in requestAnimationFrame, whatever pause and resume key presses come
\* between the frames, so that no frame runs Game.update more than once
C26_AsClaimed == pendingFrames <= 1 /\ updatesInFrame <= 1


\* what Game.update works on, the bird apart
GameFields ==
    <<vehicles, droppings, foods, score, wave, waveTimer, vehiclesPerWave,
      vehiclesSpawned, vehicleSpawnTimer, foodSpawnTimer, emergencyMode,
      emergencyVehiclesRemaining, ticks>>

\* C27: while gamePaused is true Game.update is not called: score, wave,
\* the timers and lists of the Game stay as they are and the bird changes
\* only by a key handler (the space key starts a dropping and its cooldown);
\* the update of the resume has deltaTime 0 and lastTimestamp is then the
\* time of the resume, so the next frame counts from there
C27_PausedGameStandsStill ==
    [][/\ (gamePaused /\ gamePaused') =>
             /\ GameFields' = GameFields
             /\ bird' # bird => bird' = drop(bird, Len(scoreLog) + 1)
       /\ (started /\ gamePaused /\ ~gamePaused') =>
             /\ ticks' = ticks + 1
             /\ lastDelta' = 0
             /\ lastTimestamp' = now']_vars

\* the game was paused for a while, a frame came and went, and it has just
\* been resumed: the waveTimer is behind the clock
C27_Witness ==
    /\ started /\ ~gamePaused
    /\ lastTimestamp = now /\ lastDelta = 0
    /\ pendingFrames = 1
    /\ now >= 4 /\ waveTimer = 1

\* C27 (as claimed): while gamePaused is true nothing changes, no timer
\* either
C27_AsClaimed ==
    [][(gamePaused /\ gamePaused') =>
          GameFields' = GameFields /\ bird' = bird]_vars


-----------------------------------------------------------------------------
(* Cast specification: Game.update every 0.1 s with a bird that has eaten   *)
(* its way to a power level with single, multi or laser droppings, cars     *)
(* passing under it, and the space key pressed at any time.                 *)

MaxCastTicks == 52 \* Game.update calls in a cast run
MaxCasts == 1      \* droppings fired in a cast run

\* foods of 3 belly points the bird has eaten before the run: levels 0, 3
\* and 5
CastMeals == {0, 5, 9}

CastEnv ==
    [directions    |-> {"right"},
     lanes         |-> {3},
     speeds        |-> {150},
     honks         |-> {TRUE},
     honkDurations |-> {20},
     aspects       |-> {200},
     pcts          |-> {25},
     honkOnSlow    |-> {FALSE},
     cooldowns     |-> {30},
     foods         |-> {<<6000, 1000, 1>>}]

\* the bird after eating n foods of 3 belly points each
RECURSIVE fed(_, _)
fed(b, n) == IF n = 0 THEN b ELSE eatFood(fed(b, n - 1), [bellyPoints |-> 3])

CastInit ==
    \E n \in CastMeals :
        Starts([NewGame(OnlyCars) EXCEPT !.bird = fed(Bird, n)])

CastUpdate ==
    /\ ticks < MaxCastTicks
    /\ \E dt \in GameDts : \E g \in update(G, dt, CastEnv) : Becomes(g)

CastDropKey ==
    /\ Len(scoreLog) < MaxCasts
    /\ dropAllowed(bird)
    /\ Becomes(dropped(G))

CastNext == CastUpdate \/ CastDropKey

SpecCast == CastInit /\ [][CastNext]_vars

\* the ids of the droppings of the list ds
DroppingIds(ds) == {ds[k].id : k \in DOMAIN ds}

\* the dropping d of this state is moved by the update of this step to a
\* place above the lower edge of the canvas
StaysOnScreen(d) == ticks' = ticks + 1 /\ d.y + d.speed * (ticks' - ticks) < canvasHeight


\* the droppings in the game: those of the list and the one the bird holds
InGame == droppings \o bird.activeDropping

\* C28 (as claimed): a laser dropping whose lifetime has not run out stays in
\* the game, whatever it hits in the update
C28_AsClaimed ==
    [][\A k \in DOMAIN InGame :
          (/\ InGame[k].type = "laser"
           /\ InGame[k].lifetime - (ticks' - ticks) > 0
           /\ StaysOnScreen(InGame[k]))
             => InGame[k].id \in DroppingIds(droppings')]_vars

\* C29 (as claimed): a multi dropping with a sub-point that hits no vehicle
\* in the update stays in the game with that sub-point active, whatever its
\* other sub-points hit
C29_AsClaimed ==
    [][\A k \in DOMAIN InGame :
          (/\ InGame[k].type = "multi"
           /\ StaysOnScreen(InGame[k])
           /\ \E j \in DOMAIN InGame[k].poops :
                 /\ InGame[k].poops[j].active
                 /\ hitVehicles(vehicles', InGame[k].poops[j]) = {})
             => \E m \in DOMAIN droppings' :
                   /\ droppings'[m].id = InGame[k].id
                   /\ \E j \in DOMAIN droppings'[m].poops :
                         droppings'[m].poops[j].active]_vars

\* C30: after every update each dropping of the game, and each active
\* sub-poop of a multi dropping, is above the lower edge of the canvas (y <
\* 400), and so is a dropping the bird still holds
C30_NothingBelowCanvas ==
    /\ \A k \in DOMAIN droppings :
          /\ droppings[k].y < canvasHeight
          /\ droppings[k].type = "multi" =>
                \A j \in DOMAIN droppings[k].poops :
                    droppings[k].poops[j].active =>
                        droppings[k].poops[j].y < canvasHeight
    /\ \A k \in DOMAIN bird.activeDropping :
          bird.activeDropping[k].y < canvasHeight

\* a multi dropping has fallen past the vehicles, has hit none and is gone
C30_Witness ==
    /\ bird.poopType = "multi" /\ Len(scoreLog) = 1
    /\ droppings = <<>> /\ bird.activeDropping = <<>>
    /\ vehicles # <<>>
    /\ \A i \in DOMAIN vehicles : vehicles[i].hits = 0


-----------------------------------------------------------------------------
(* Slowdown episodes (C31), on the speed specification *)

\* targetSpeed is 5% or more and less than 30% of originalSpeed, and has
\* its sign
SlowdownTarget(v) ==
    /\ Sign(v.targetSpeed) = Sign(v.originalSpeed)
    /\ 20 * Abs(v.targetSpeed) >= Abs(v.originalSpeed)
    /\ 10 * Abs(v.targetSpeed) < 3 * Abs(v.originalSpeed)

\* C31: a vehicle that is not crashed gets its slowed targetSpeed, between
\* 5% and 30% of originalSpeed, in the step in which isSlowingDown becomes
\* true, and keeps it for as long as isSlowingDown stays true
C31_TargetSetOncePerEpisode ==
    [][\A k \in Ids(vehicles) \cap Ids(vehicles') :
          LET v == VehicleOf(vehicles, k)
              w == VehicleOf(vehicles', k)
          IN  (~w.hasCrashed /\ w.isSlowingDown) =>
                 IF v.isSlowingDown THEN w.targetSpeed = v.targetSpeed
                 ELSE SlowdownTarget(w)]_vars

\* a vehicle has gone all the way down to 5%, which takes two updates of
\* 1 s with its hazard in place, and another vehicle has 29% as its target
C31_Witness ==
    \E i, j \in DOMAIN vehicles :
       /\ vehicles[i].isSlowingDown /\ ~vehicles[i].hasCrashed
       /\ ~vehicles[i].isChangingLane
       /\ vehicles[i].targetSpeed = 7 /\ vehicles[i].speed = 7
       /\ vehicles[j].isSlowingDown /\ Abs(vehicles[j].targetSpeed) = 40


-----------------------------------------------------------------------------
(* Return to normal speed (C32), on the road specification *)

\* vehicle k is on the road, not crashed and not slowing, below its
\* original speed
Recovering(k) ==
    \E i \in DOMAIN vehicles :
       /\ vehicles[i].id = k
       /\ ~vehicles[i].hasCrashed /\ ~vehicles[i].isSlowingDown
       /\ vehicles[i].speed # vehicles[i].originalSpeed

\* this step is an update of the vehicles: nothing was spawned and
\* nothing was hit
VehiclesUpdated ==
    /\ vehicles' # vehicles /\ nextId' = nextId
    /\ \A k \in Ids(vehicles) \cap Ids(vehicles') :
          VehicleOf(vehicles', k).hits = VehicleOf(vehicles, k).hits

\* C32: when the update of a slowed vehicle that is not crashed and not
\* changing lanes finds no opposing vehicle of its lane less than 3 s from
\* collision and no vehicle of its lane ahead within 4 widths, the vehicle
\* is no longer slowing after the update and its targetSpeed is its
\* originalSpeed again; and it does look in every update that keeps it and
\* does not start a lane change.  A
\* vehicle that is below its original speed and not slowing does not stay
\* so for ever: it gets back to originalSpeed unless it slows again,
\* crashes or leaves first
C32_ReturnsToNormalSpeed ==
    /\ [][\A k \in Ids(vehicles) \cap Ids(vehicles') :
             LET v == VehicleOf(vehicles, k)
                 w == VehicleOf(vehicles', k)
             IN  (/\ v.isSlowingDown /\ ~v.hasCrashed /\ ~v.isChangingLane
                  /\ ~w.hasCrashed /\ VehiclesUpdated) =>
                    /\ w.returnCheck = "clear" =>
                          ~w.isSlowingDown /\ w.targetSpeed = w.originalSpeed
                    /\ w.returnCheck = "hazard" =>
                          w.isSlowingDown /\ w.targetSpeed = v.targetSpeed
                    /\ w.returnCheck = "none" => w.isChangingLane]_vars
    /\ \A k \in 1..MaxOnRoad : Recovering(k) ~> ~Recovering(k)

\* a vehicle was let go in its latest update and is on its way back up
C32_Witness ==
    \E i \in DOMAIN vehicles :
       /\ vehicles[i].returnCheck = "clear"
       /\ ~vehicles[i].hasCrashed /\ ~vehicles[i].isSlowingDown
       /\ vehicles[i].targetSpeed = vehicles[i].originalSpeed
       /\ Abs(vehicles[i].speed) < Abs(vehicles[i].originalSpeed)


-----------------------------------------------------------------------------
(* Lane changes start into clear lanes only (C33), on the passing          *)
(* specification                                                            *)

\* C33: a vehicle whose update called attemptLaneChange has started a lane
\* change exactly when one of its adjacent lanes had no other vehicle
\* within 2 of its widths in x at that moment, and then the change goes to
\* such a lane; when none was clear it is not changing lanes and its lane
\* and y are what they were
C33_ChangesIntoClearLane ==
    [][\A k \in Ids(vehicles) \cap Ids(vehicles') :
          LET v == VehicleOf(vehicles, k)
              w == VehicleOf(vehicles', k)
              gaps == w.attempt[1]
              clear == {l \in DOMAIN gaps : gaps[l] >= 2 * w.width}
          IN  (w.attempt # <<>> /\ VehiclesUpdated) =>
                 /\ ~v.isChangingLane
                 /\ w.lane = v.lane /\ w.y = v.y
                 /\ w.isChangingLane <=> clear # {}
                 /\ w.isChangingLane =>
                       w.targetLane \in clear /\ w.laneChangeProgress = 0]_vars

\* in one update a vehicle has started a change into a clear lane and
\* another one has called attemptLaneChange with no adjacent lane clear
C33_Witness ==
    /\ \E i \in DOMAIN vehicles :
          vehicles[i].attempt # <<>> /\ vehicles[i].isChangingLane
    /\ \E j \in DOMAIN vehicles :
          /\ vehicles[j].attempt # <<>> /\ ~vehicles[j].isChangingLane
          /\ \A l \in DOMAIN vehicles[j].attempt[1] :
                vehicles[j].attempt[1][l] < 2 * vehicles[j].width


-----------------------------------------------------------------------------
(* Honk episodes *)

\* the cooldown after a honk: Math.random() * 4 + 3 seconds, in ds
HonkCooldowns == 30..70

\* C34: in the update in which the honkTimer of a honking vehicle reaches
\* its honkDuration the vehicle stops honking, its honkTimer is 0 again
\* and a honkCooldown of 3 to 7 s is set; in every earlier update it goes
\* on honking with the timer advanced by deltaTime; and a vehicle whose
\* honkCooldown is positive does not start to honk.
C34_HonkEndsAndCoolsDown ==
    [][\A k \in Ids(vehicles) \cap Ids(vehicles') :
          LET v == VehicleOf(vehicles, k)
              w == VehicleOf(vehicles', k)
          IN  /\ (VehiclesUpdated /\ v.isHonking /\ ~w.hasCrashed) =>
                    \E dt \in TrafficDts :
                       IF v.honkTimer + dt >= v.honkDuration
                       THEN /\ ~w.isHonking
                            /\ w.honkTimer = 0
                            /\ w.honkCooldown \in HonkCooldowns
                       ELSE /\ w.isHonking
                            /\ w.honkTimer = v.honkTimer + dt
              /\ w.isHonking => w.honkTimer < w.honkDuration
              /\ (~v.isHonking /\ v.honkCooldown > 0) => ~w.isHonking]_vars

\* a vehicle that stopped honking is slowed behind another one while its
\* cooldown runs, and another vehicle honks
C34_Witness ==
    \E i, j \in DOMAIN vehicles :
       /\ ~vehicles[i].isHonking /\ vehicles[i].honkCooldown > 0
       /\ vehicles[i].honkCooldown < 30
       /\ vehicles[i].isSlowingDown
       /\ ~vehicles[i].hasCrashed /\ ~vehicles[i].hitByPoop
       /\ vehicles[j].isHonking /\ vehicles[j].honkTimer > 0


-----------------------------------------------------------------------------
(* Steering specification: Bird.update called with short and long          *)
(* deltaTimes while the arrow keys set and clear the four movement         *)
(* intents.                                                                *)

MaxSteerTicks == 4

\* deltaTime of the bird updates, in ds: none, a frame, 0.7 s, 3 s
SteerDts == {0, 1, 7, 30}

MovementIntents == {"movingLeft", "movingRight", "movingUp", "movingDown"}

\* handleKeyDown / handleKeyUp of an arrow key: bird.startMoving...() and
\* bird.stopMoving...()
SteerKey ==
    \E m \in MovementIntents, on \in BOOLEAN :
        /\ bird[m] # on
        /\ Becomes([G EXCEPT !.bird[m] = on])

\* bird.update(deltaTime)
SteerUpdate ==
    /\ ticks < MaxSteerTicks
    /\ \E dt \in SteerDts :
          Becomes([G EXCEPT !.bird = BirdUpdate(@, dt), !.ticks = @ + 1])

SteerNext == SteerKey \/ SteerUpdate

SpecSteer == GameInit /\ [][SteerNext]_vars

\* C35: whatever the four movement intents and deltaTime, the bird is
\* inside the canvas after Bird.update:  0 <= x <= canvasWidth - width  and
\* 0 <= y <= canvasHeight - height.
C35_BirdStaysOnCanvas ==
    /\ 0 <= bird.x /\ bird.x <= canvasWidth - birdWidth
    /\ 0 <= bird.y /\ bird.y <= canvasHeight - birdHeight

\* the bird was stopped in the upper right corner while steering up and
\* to the right
C35_Witness ==
    /\ ticks > 0
    /\ bird.movingRight /\ bird.movingUp
    /\ ~bird.movingLeft /\ ~bird.movingDown
    /\ bird.x = canvasWidth - birdWidth
    /\ bird.y = 0


-----------------------------------------------------------------------------
(* Emergency budget *)

\* C36: between two updates emergencyMode is true exactly when
\* emergencyVehiclesRemaining > 0, the budget is always within 0..10, and
\* an update in which a crash is notified ends with a budget of exactly
\* 10, whatever was left of an earlier budget.
C36_BudgetResetNotAdded ==
    /\ [](emergencyMode <=> emergencyVehiclesRemaining > 0)
    /\ [](emergencyVehiclesRemaining \in 0..emergencyBudget)
    /\ [][crashEvents' # crashEvents =>
             emergencyVehiclesRemaining' = emergencyBudget]_vars

\* a second collision was notified before ten vehicles had been spawned
\* in the whole run, that is while the budget of the first one was still
\* running, and the budget is 10
C36_Witness ==
    /\ collisions = 2
    /\ nextId <= emergencyBudget
    /\ emergencyMode /\ emergencyVehiclesRemaining = emergencyBudget


-----------------------------------------------------------------------------
(* Strike specification: the Vehicle class driven as in the traffic         *)
(* specification, with honking cars that follow each other closely in      *)
(* one lane, and handleHit called on any vehicle on the road, hit before or *)
(* not, as the second pass of the droppings filter calls it.                *)

MaxStruck == 2   \* vehicles created in a strike run
MaxStrikes == 2  \* handleHit calls on one vehicle

StrikeEnv ==
    [directions    |-> {"right"},
     lanes         |-> {2},
     speeds        |-> {150},
     honks         |-> {TRUE},
     honkDurations |-> {20},
     aspects       |-> {200},
     pcts          |-> {25},
     honkOnSlow    |-> {TRUE, FALSE},
     cooldowns     |-> {30},
     foods         |-> {<<6000, 1000, 1>>}]

\* power-up levels handleHit is called with: hit durations of 3 s and 1 s
StrikeLevels == {0, 3}

\* game.spawnVehicle()
StrikeSpawn ==
    /\ nextId <= MaxStruck
    /\ \E g \in spawnVehicle(G, StrikeEnv) : Becomes(g)

\* the vehicles filter of Game.update
StrikeUpdate ==
    \E dt \in TrafficDts :
        \E g \in vehiclesStep(G, dt, StrikeEnv) : Becomes(g)

\* the second pass of the droppings filter for one hit vehicle:
\* vehicle.handleHit(powerLevel) and the score
Strike ==
    \E i \in DOMAIN vehicles, level \in StrikeLevels :
        /\ vehicles[i].hitCalls < MaxStrikes
        /\ Becomes([G EXCEPT !.vehicles[i] = handleHit(@, level),
                             !.score = addPoints(@, hitPoints(vehicles[i]))])

StrikeNext == StrikeSpawn \/ StrikeUpdate \/ Strike

SpecStrike == TrafficInit /\ [][StrikeNext]_vars

\* C37: a vehicle scores at most once.  Once hitByPoop is set it stays set,
\* a later handleHit returns 0, changes no score and leaves hitTimer and
\* hitDuration as they are (the timer only grows, in the updates), and
\* the vehicle does not honk again while it is on the road.
C37_ScoresOnce ==
    [][\A k \in Ids(vehicles) \cap Ids(vehicles') :
          LET v == VehicleOf(vehicles, k)
              w == VehicleOf(vehicles', k)
          IN  v.hitByPoop =>
                 /\ w.hitByPoop /\ ~w.isHonking
                 /\ w.hits = 1 /\ w.points = v.points
                 /\ w.hitDuration = v.hitDuration
                 /\ w.hitTimer >= v.hitTimer
                 /\ \A n \in DOMAIN w.laterPoints : w.laterPoints[n] = 0
                 /\ w.hitCalls > v.hitCalls =>
                       score' = score /\ w.hitTimer = v.hitTimer]_vars

\* a car that scored 5 has been hit a second time and has slowed down
\* behind another car, two updates after its first hit
C37_Witness ==
    \E i \in DOMAIN vehicles :
       /\ vehicles[i].hitCalls = 2 /\ vehicles[i].points = 5
       /\ vehicles[i].laterPoints = <<0>>
       /\ vehicles[i].hitTimer = 20
       /\ vehicles[i].isSlowingDown
       /\ score >= 5


-----------------------------------------------------------------------------
(* Crashes in pairs *)

\* the vehicles that are crashed after this step and were not before it
NewlyCrashed ==
    {k \in Ids(vehicles') :
        /\ VehicleOf(vehicles', k).hasCrashed
        /\ k \in Ids(vehicles) => ~VehicleOf(vehicles, k).hasCrashed}

\* C38: the vehicles that become crashed in one update come in pairs: each
\* of them was crashed together with exactly one other vehicle, which was
\* not crashed before, overlapped it and becomes crashed in the same
\* update, and no third vehicle was crashed with either of the two; so
\* the number of vehicles that become crashed in an update is even.
C38_CrashesComeInPairs ==
    [][/\ \A k \in NewlyCrashed :
             /\ VehicleOf(vehicles', k).crashInfo # <<>>
             /\ LET w == VehicleOf(vehicles', k)
                    p == w.crashInfo[1].other
                IN  /\ p # k /\ p \in NewlyCrashed
                    /\ w.crashInfo[1].overlap
                    /\ VehicleOf(vehicles', p).crashInfo # <<>>
                    /\ VehicleOf(vehicles', p).crashInfo[1].other = k
                    /\ \A u \in NewlyCrashed \ {k} :
                          VehicleOf(vehicles', u).crashInfo # <<>>
                          /\ (VehicleOf(vehicles', u).crashInfo[1].other = k
                                 => u = p)
       /\ Cardinality(NewlyCrashed) % 2 = 0
       /\ Cardinality(NewlyCrashed) = crashEvents' - crashEvents]_vars

\* two vehicles have crashed into each other, and a third one that
\* overlaps one of them is not crashed
C38_Witness ==
    \E i, j, k \in DOMAIN vehicles :
       /\ vehicles[i].hasCrashed /\ vehicles[j].hasCrashed
       /\ vehicles[i].crashInfo[1].other = vehicles[j].id
       /\ vehicles[i].crashTimer = 0 /\ vehicles[j].crashTimer = 0
       /\ ~vehicles[k].hasCrashed
       /\ boxesOverlap(vehicles[k], vehicles[i])


-----------------------------------------------------------------------------
(* Later waves *)

-----------------------------------------------------------------------------
(* Crowd specification: Game.update in steps of 1 s through the first      *)
(* waves with slow, silent cars in one lane, each held up by the one        *)
(* before it, so that the road fills.                                       *)

MaxCrowdTicks == 172 \* Game.update calls in a crowd run

CrowdEnv ==
    [directions    |-> {"right"},
     lanes         |-> {1},
     speeds        |-> {50},
     honks         |-> {FALSE},
     honkDurations |-> {20},
     aspects       |-> {200},
     pcts          |-> {5},
     honkOnSlow    |-> {FALSE},
     cooldowns     |-> {30},
     foods         |-> {<<6000, 1000, 1>>}]

CrowdDts == {10}

CrowdUpdate ==
    /\ ticks < MaxCrowdTicks
    /\ \E dt \in CrowdDts : \E g \in update(G, dt, CrowdEnv) : Becomes(g)

CrowdNext == CrowdUpdate

SpecCrowd == GameInit /\ [][CrowdNext]_vars


\* the game after the wave timer of this step's update was handled
AfterWaveStep == UNION {{waveStep(G, dt)} : dt \in CrowdDts}

\* the update of this step finds the spawn timer due but the road full or
\* the wave's quota reached
SpawnBlocked ==
    /\ ticks' # ticks
    /\ \E dt \in CrowdDts : \E g1 \in AfterWaveStep :
          /\ ~g1.bird.isDead
          /\ g1.vehicleSpawnTimer + dt >= getVehicleSpawnInterval(g1.wave)
          /\ \/ Len(g1.vehicles) >= maxVehicles
             \/ g1.vehiclesSpawned >= g1.vehiclesPerWave

\* C40: after every update vehiclesSpawned <= vehiclesPerWave, at most
\* maxVehicles vehicles are on the road and at most maxFoods foods on the
\* canvas; an update creates at most one vehicle and at most one food; and
\* an update whose spawn is blocked creates no vehicle and leaves
\* vehiclesSpawned as the wave timer left it (unless the update ends the
\* wave) and the spawn timer running.
C40_SpawnLimits ==
    /\ [](vehiclesSpawned <= vehiclesPerWave)
    /\ [](Len(vehicles) <= maxVehicles)
    /\ [](Len(foods) <= maxFoods)
    /\ [][/\ nextId' - nextId \in {0, 1}
          /\ Cardinality(Ids(vehicles') \ Ids(vehicles)) = nextId' - nextId
          /\ Len(foods') <= Len(foods) + 1
          /\ wave' = wave => vehiclesSpawned' - vehiclesSpawned = nextId' - nextId
          /\ SpawnBlocked =>
                /\ nextId' = nextId
                /\ Ids(vehicles') \subseteq Ids(vehicles)
                /\ \E g1 \in AfterWaveStep :
                      \/ vehiclesSpawned' = g1.vehiclesSpawned
                      \/ wave' # g1.wave
                /\ vehicleSpawnTimer' > vehicleSpawnTimer]_vars

\* a spawn that was due with the quota of the wave not reached was not
\* made, because 20 vehicles were on the road; one of them has left it in
\* the same update
C40_Witness ==
    /\ ticks > 0 /\ ~bird.isDead
    /\ vehicleSpawnTimer >= getVehicleSpawnInterval(wave)
    /\ vehiclesSpawned < vehiclesPerWave
    /\ Len(vehicles) = maxVehicles - 1
    /\ Len(foods) = 2

=============================================================================
